---- MODULE Spec2Model ----
(***************************************************************************)
(* BroBuild: PC part catalogue, constraint derivation, compatibility       *)
(* checking and the greedy budget allocator (AutoBuilder).                 *)
(*                                                                         *)
(* Conventions of the model                                                *)
(*   - a Python str is a sequence of one-character strings;                *)
(*     the str-typed None is the one-element sequence NoneStr;             *)
(*   - a Python value of varying type (price, TDP, wattage) is a tagged    *)
(*     record: Num(n), Str(s) or None;                                     *)
(*   - a part record (dict) is a function from field names to values; a    *)
(*     key that the dict does not carry is outside its DOMAIN;             *)
(*   - money is exact: amounts are integers in units of 1/MoneyScale.      *)
(***************************************************************************)
EXTENDS Integers, Sequences, FiniteSets, TLC

VARIABLES
    data,           \* PartDatabase.data: json key -> list of part records
    frontend,       \* the running program: "cli" (main.py) or "web" (app.py)
    part_list,      \* BroBuildApp.part_list.parts (PartList of the CLI)
    shown_total,    \* the total printed by the last PartList.display()
    session_build,  \* session['build'] of the web application
    err,            \* exception that ended the last handler, or "none"
    pc,             \* position of run_auto_build: "idle", the category it
                    \* is about to pick, or "done"
    total_budget,   \* argument of run_auto_build
    purpose,        \* argument of run_auto_build
    build,          \* build.parts, the PartList local to run_auto_build
    budget_rollover,    \* local of run_auto_build
    gpu_budget_final,   \* local of run_auto_build
    result,         \* what run_auto_build returned (or raised)
    pick_default,   \* the default argument object constraints={} of _pick_part
    attempts,       \* history: the json keys _pick_part was called with
    prev_result,    \* history: result of the previous call of run_auto_build
    runs,           \* history: number of calls of run_auto_build
    master_spec_maps, \* PartDatabase.master_spec_maps, the master-spec index
    phase,          \* how far start-up has got: constructed, cpu_enriched, ready
    call_out,       \* what the last call of an engine operation returned
    call_in,        \* the arguments of an engine operation called on its own
    pick_in,        \* arguments of a _pick_part call: json_key, budget, constraints
    pick_out,       \* what the _pick_part call returned
    pick_done,      \* the _pick_part call has returned
    norm_in,        \* argument of a _normalize_socket call
    norm_out,       \* results of the three copies of _normalize_socket
    norm_done       \* the call has returned

normVars == <<norm_in, norm_out, norm_done>>

pickVars == <<pick_in, pick_out, pick_done>>

startVars == <<master_spec_maps, phase, call_out, call_in>>

manualVars == <<frontend, part_list, shown_total, session_build, err>>

runVars == <<pc, total_budget, purpose, build, budget_rollover,
             gpu_budget_final, result, pick_default, attempts, prev_result,
             runs>>

vars == <<data, frontend, part_list, shown_total, session_build, err,
          pc, total_budget, purpose, build, budget_rollover,
          gpu_budget_final, result, pick_default, attempts, prev_result,
          runs, master_spec_maps, phase, call_out, call_in,
          pick_in, pick_out, pick_done, norm_in, norm_out, norm_done>>

-----------------------------------------------------------------------------
(* Python strings                                                          *)

NoneStr == <<"<None>">>

\* the value of a local variable that is assigned once: the element of a
\* singleton set
The(S) == CHOOSE x \in S : TRUE

\* str.lower() on one character
LowerChar(c) ==
    CASE c = "A" -> "a"
      [] c = "B" -> "b"
      [] c = "C" -> "c"
      [] c = "D" -> "d"
      [] c = "E" -> "e"
      [] c = "F" -> "f"
      [] c = "G" -> "g"
      [] c = "H" -> "h"
      [] c = "I" -> "i"
      [] c = "J" -> "j"
      [] c = "K" -> "k"
      [] c = "L" -> "l"
      [] c = "M" -> "m"
      [] c = "N" -> "n"
      [] c = "O" -> "o"
      [] c = "P" -> "p"
      [] c = "Q" -> "q"
      [] c = "R" -> "r"
      [] c = "S" -> "s"
      [] c = "T" -> "t"
      [] c = "U" -> "u"
      [] c = "V" -> "v"
      [] c = "W" -> "w"
      [] c = "X" -> "x"
      [] c = "Y" -> "y"
      [] c = "Z" -> "z"
      [] OTHER   -> c

IsDigit(c) == c \in {"0", "1", "2", "3", "4", "5", "6", "7", "8", "9"}

IsSpace(c) == c \in {" ", "\t"}

\* str.lower()
StrLower(s) == [i \in 1..Len(s) |-> LowerChar(s[i])]

NotSpace(c) == ~IsSpace(c)

\* re.sub(r'\s+', '', s)
RemoveWhitespace(s) == SelectSeq(s, NotSpace)

\* does sub occur in s at position i
OccursAt(sub, s, i) ==
    /\ i >= 1
    /\ i + Len(sub) - 1 <= Len(s)
    /\ \A k \in 1..Len(sub) : s[i + k - 1] = sub[k]

\* str.find, 1-based; 0 when sub does not occur
StrFind(sub, s) ==
    IF \E i \in 1..(Len(s) + 1) : OccursAt(sub, s, i)
    THEN CHOOSE i \in 1..(Len(s) + 1) :
            /\ OccursAt(sub, s, i)
            /\ \A j \in 1..(i - 1) : ~OccursAt(sub, s, j)
    ELSE 0

\* sub in s
StrContains(sub, s) == StrFind(sub, s) > 0

\* s.startswith(sub)
StrStartsWith(s, sub) == OccursAt(sub, s, 1)

\* s.replace(sub, "") for a non-empty sub: left to right, non-overlapping
RECURSIVE StrRemoveAll(_, _)
StrRemoveAll(s, sub) ==
    The({ IF i = 0 THEN t
          ELSE SubSeq(t, 1, i - 1)
               \o StrRemoveAll(SubSeq(t, i + Len(sub), Len(t)), sub) :
              <<t, i>> \in { <<t, StrFind(sub, t)>> : t \in {s} } })

\* the maximal run of digits of s that starts at position i
RECURSIVE DigitRunFrom(_, _)
DigitRunFrom(s, i) ==
    IF i <= Len(s) /\ IsDigit(s[i])
    THEN <<s[i]>> \o DigitRunFrom(s, i + 1)
    ELSE <<>>

LGA == <<"l", "g", "a">>
AM4 == <<"a", "m", "4">>
AM5 == <<"a", "m", "5">>
AMD == <<"a", "m", "d">>
INTEL == <<"i", "n", "t", "e", "l">>
SOCKET == <<"s", "o", "c", "k", "e", "t">>

\* re.search(r'lga(\d+)', s): positions where 'lga' is followed by a digit
LgaMatchAt(s, i) == OccursAt(LGA, s, i) /\ i + 3 <= Len(s) /\ IsDigit(s[i + 3])

HasLgaDigits(s) == \E i \in 1..Len(s) : LgaMatchAt(s, i)

\* group(1) of the leftmost match of lga(\d+)
LgaDigits(s) ==
    LET i == CHOOSE i \in 1..Len(s) :
                /\ LgaMatchAt(s, i)
                /\ \A j \in 1..(i - 1) : ~LgaMatchAt(s, j)
    IN  DigitRunFrom(s, i + 3)

\* re.search(r'(\d{4})', s)
FourDigitsAt(s, i) == i + 3 <= Len(s) /\ \A k \in 0..3 : IsDigit(s[i + k])

HasFourDigits(s) == \E i \in 1..Len(s) : FourDigitsAt(s, i)

FirstFourDigits(s) ==
    LET i == CHOOSE i \in 1..Len(s) :
                /\ FourDigitsAt(s, i)
                /\ \A j \in 1..(i - 1) : ~FourDigitsAt(s, j)
    IN  SubSeq(s, i, i + 3)

-----------------------------------------------------------------------------
(* Socket normalization: checker._normalize_socket and its two copies      *)

normalize_socket(socket_str) ==
    IF socket_str = NoneStr \/ socket_str = <<>> THEN NoneStr
    ELSE The({ IF StrContains(AM4, s) THEN AM4
               ELSE IF StrContains(AM5, s) THEN AM5
               ELSE IF StrContains(LGA, s)
               THEN IF HasLgaDigits(s) THEN LgaDigits(s) ELSE s
               ELSE IF StrContains(INTEL, s) \/ StrContains(SOCKET, s)
               THEN IF HasFourDigits(s) THEN FirstFourDigits(s) ELSE s
               ELSE StrRemoveAll(StrRemoveAll(StrRemoveAll(s, AMD), INTEL), SOCKET) :
                   s \in {StrLower(RemoveWhitespace(socket_str))} })

\* engine/checker.py
checker_normalize_socket(socket_str) == normalize_socket(socket_str)

\* engine/autobuilder.py
autobuilder_normalize_socket(socket_str) == normalize_socket(socket_str)

\* engine/database.py, PartDatabase._normalize_socket
PartDatabase_normalize_socket(socket_str) == normalize_socket(socket_str)

\* no call of _normalize_socket has returned yet
NoNormOut == [checker |-> NoneStr, autobuilder |-> NoneStr, database |-> NoneStr]

-----------------------------------------------------------------------------
(* Python values of varying type                                           *)

None == [t |-> "none"]

Num(n) == [t |-> "num", v |-> n]

Str(s) == [t |-> "str", v |-> s]

\* bool(v)
Truthy(v) ==
    \/ v.t = "num" /\ v.v # 0
    \/ v.t = "str" /\ v.v # <<>>

DigitValue(c) ==
    CASE c = "0" -> 0 [] c = "1" -> 1 [] c = "2" -> 2 [] c = "3" -> 3
      [] c = "4" -> 4 [] c = "5" -> 5 [] c = "6" -> 6 [] c = "7" -> 7
      [] c = "8" -> 8 [] c = "9" -> 9

DigitChar(d) ==
    CASE d = 0 -> "0" [] d = 1 -> "1" [] d = 2 -> "2" [] d = 3 -> "3"
      [] d = 4 -> "4" [] d = 5 -> "5" [] d = 6 -> "6" [] d = 7 -> "7"
      [] d = 8 -> "8" [] d = 9 -> "9"

IsDigitString(s) == Len(s) > 0 /\ \A i \in 1..Len(s) : IsDigit(s[i])

RECURSIVE DigitsValue(_)
DigitsValue(s) ==
    IF s = <<>> THEN 0
    ELSE 10 * DigitsValue(SubSeq(s, 1, Len(s) - 1)) + DigitValue(s[Len(s)])

\* str(n) for n >= 0
RECURSIVE IntToStr(_)
IntToStr(n) ==
    IF n < 10 THEN <<DigitChar(n)>>
    ELSE IntToStr(n \div 10) \o <<DigitChar(n % 10)>>

\* int(v) and float(v) on the values of the model: a number converts to
\* itself, a string of digits to its value, any other string raises
\* ValueError and None raises TypeError
PyNumber(v) ==
    CASE v.t = "num" -> [ok |-> TRUE, v |-> v.v, exc |-> "none"]
      [] v.t = "str" /\ IsDigitString(v.v)
                     -> [ok |-> TRUE, v |-> DigitsValue(v.v), exc |-> "none"]
      [] v.t = "str" /\ ~IsDigitString(v.v)
                     -> [ok |-> FALSE, v |-> 0, exc |-> "ValueError"]
      [] OTHER       -> [ok |-> FALSE, v |-> 0, exc |-> "TypeError"]

-----------------------------------------------------------------------------
(* Part records (dicts)                                                    *)

\* part.get(key): a varying-type field
Get(part, key) == IF key \in DOMAIN part THEN part[key] ELSE None

\* part.get(key, default) on a str-typed field
GetStr(part, key, default) == IF key \in DOMAIN part THEN part[key] ELSE default

\* part.get(key, default) on a varying-type field
GetOr(part, key, default) == IF key \in DOMAIN part THEN part[key] ELSE default

\* bool(s) of a str-typed value
TruthyStr(s) == s # NoneStr /\ s # <<>>

\* a or b on str-typed values
OrStr(a, b) == IF TruthyStr(a) THEN a ELSE b

NoPart == [absent |-> TRUE]

-----------------------------------------------------------------------------
(* PartDatabase: constraint filter and search                              *)

DDR == <<"D", "D", "R">>
DDR4 == <<"D", "D", "R", "4">>
DDR5 == <<"D", "D", "R", "5">>

NoConstraints ==
    [socket |-> NoneStr, memory_type |-> NoneStr, estimated_power |-> None]

\* wattages w below 1000 for which the float product w * 0.7 is rounded
\* below the exact value 7w/10 (e.g. 650 * 0.7 = 454.99999999999994)
FloatShort07 ==
    {90, 170, 180, 330, 340, 350, 360, 650, 660, 670, 680, 690, 700, 710,
     720, 730}

\* a headroom test with the factor on the wrong side: psu_power * 1.3
WattageTooLowAt130(psu_power, estimated_power) ==
    13 * psu_power < 10 * estimated_power

\* psu_power * 0.7 < estimated_power, in IEEE double arithmetic
WattageTooLow(psu_power, estimated_power) ==
    \/ 7 * psu_power < 10 * estimated_power
    \/ 7 * psu_power = 10 * estimated_power /\ psu_power \in FloatShort07

SocketPasses(part, constraints) ==
    IF constraints.socket = NoneStr THEN TRUE
    ELSE LET part_socket_raw ==
                 OrStr(GetStr(part, "socket", NoneStr),
                       GetStr(part, "Physical - Socket", NoneStr))
         IN  IF TruthyStr(part_socket_raw)
             THEN PartDatabase_normalize_socket(part_socket_raw)
                  = PartDatabase_normalize_socket(constraints.socket)
             ELSE TRUE

\* a memory-type check that accepts a RAM whose type occurs anywhere in the
\* constraint
MemoryTypePassesAnywhere(part, constraints) ==
    IF constraints.memory_type = NoneStr THEN TRUE
    ELSE IF "speed" \in DOMAIN part /\ "modules" \in DOMAIN part
    THEN /\ part["speed"][1] # 0
         /\ StrContains(DDR \o IntToStr(part["speed"][1]), constraints.memory_type)
    ELSE IF "Architecture - Memory Support" \in DOMAIN part
    THEN /\ TruthyStr(part["Architecture - Memory Support"])
         /\ StrContains(constraints.memory_type,
                        part["Architecture - Memory Support"])
    ELSE TRUE

\* 2. memory type (lines 205-233)
MemoryTypePasses(part, constraints) ==
    IF constraints.memory_type = NoneStr THEN TRUE
    ELSE IF "speed" \in DOMAIN part /\ "modules" \in DOMAIN part
    THEN /\ part["speed"][1] # 0
         /\ StrStartsWith(constraints.memory_type,
                          DDR \o IntToStr(part["speed"][1]))
    ELSE IF "Architecture - Memory Support" \in DOMAIN part
    THEN /\ TruthyStr(part["Architecture - Memory Support"])
         /\ StrContains(constraints.memory_type,
                        part["Architecture - Memory Support"])
    ELSE TRUE

PowerPasses(part, constraints) ==
    IF constraints.estimated_power = None THEN TRUE
    ELSE IF "wattage" \in DOMAIN part
    THEN LET psu_power == PyNumber(part["wattage"])
         IN  /\ psu_power.ok
             /\ ~WattageTooLow(psu_power.v, constraints.estimated_power.v)
    ELSE TRUE

passes_constraints(part, constraints) ==
    /\ SocketPasses(part, constraints)
    /\ MemoryTypePasses(part, constraints)
    /\ PowerPasses(part, constraints)

\* the keyword test on the name alone
KeywordMatchesNameOnly(part_type, keyword, part) ==
    StrContains(keyword, StrLower(GetStr(part, "name", <<>>)))

\* the keyword test of search_parts
KeywordMatches(part_type, keyword, part) ==
    \/ StrContains(keyword, StrLower(GetStr(part, "name", <<>>)))
    \/ /\ part_type = "video-card"
       /\ StrContains(keyword, StrLower(GetStr(part, "chipset", <<>>)))

\* PartDatabase.search_parts on the catalogue db
search_parts(db, part_type, keyword, constraints) ==
    IF part_type \notin DOMAIN db THEN <<>>
    ELSE LET kw == StrLower(keyword)
             Keep(part) == /\ passes_constraints(part, constraints)
                           /\ KeywordMatches(part_type, kw, part)
         IN  SelectSeq(db[part_type], Keep)

-----------------------------------------------------------------------------
(* PartDatabase start-up: the master-spec index and enrichment             *)

WordChars ==
    {"a", "b", "c", "d", "e", "f", "g", "h", "i", "j", "k", "l", "m", "n", "o",
     "p", "q", "r", "s", "t", "u", "v", "w", "x", "y", "z", "_",
     "0", "1", "2", "3", "4", "5", "6", "7", "8", "9"}

\* re.findall(r'\b\w+\b', s) as a set: the maximal runs of word characters
Words(s) ==
    { SubSeq(s, run[1], run[2]) :
          run \in { r \in (1..Len(s)) \X (1..Len(s)) :
                      /\ r[1] <= r[2]
                      /\ \A k \in r[1]..r[2] : s[k] \in WordChars
                      /\ r[1] = 1 \/ s[r[1] - 1] \notin WordChars
                      /\ r[2] = Len(s) \/ s[r[2] + 1] \notin WordChars } }

\* the common non-descriptive words
JUNK_WORDS ==
    { AMD, INTEL,
      <<"g", "e", "f", "o", "r", "c", "e">>, <<"r", "a", "d", "e", "o", "n">>,
      <<"g", "b">>, <<"t", "b">>, <<"m", "h", "z">>,
      <<"d", "d", "r", "4">>, <<"d", "d", "r", "5">>,
      <<"n", "v", "i", "d", "i", "a">> }

\* PartDatabase.normalize_search_term
normalize_search_term(term) ==
    The({ Words(lowered) \ JUNK_WORDS : lowered \in {StrLower(term)} })

\* map[key] = part on a dict kept as the list of its items in insertion
\* order: a key already present keeps its place
DictPut(map, key, part) ==
    IF \E i \in 1..Len(map) : map[i].key = key
    THEN [i \in 1..Len(map) |->
             IF map[i].key = key THEN [key |-> key, part |-> part] ELSE map[i]]
    ELSE Append(map, [key |-> key, part |-> part])

\* the map built from the first n parts of a master database
RECURSIVE MasterMap(_, _)
MasterMap(parts, n) ==
    IF n = 0 THEN <<>>
    ELSE The({ DictPut(map, normalize_search_term(GetStr(parts[n], "Name", <<>>)),
                       parts[n]) :
                   map \in {MasterMap(parts, n - 1)} })

\* 'cpu' if 'cpu' in master_db_key else 'gpu'
MapKey(master_db_key) ==
    IF master_db_key = "master_cpu_database" THEN "cpu" ELSE "gpu"

\* PartDatabase.build_master_spec_maps
build_master_spec_maps(db) ==
    [map_key \in { MapKey(k) :
                     k \in {"master_cpu_database", "master_gpu_database"}
                           \cap DOMAIN db } |->
        LET master_db_key == IF map_key = "cpu" THEN "master_cpu_database"
                             ELSE "master_gpu_database"
        IN  MasterMap(db[master_db_key], Len(db[master_db_key]))]

\* the least number of a non-empty set
SetMin(S) == CHOOSE x \in S : \A y \in S : x <= y

\* the primary loop of find_master_spec (lines 103-105): the items whose
\* key is a subset of the search words
PrimaryMatches(map, search_words) ==
    { i \in 1..Len(map) : map[i].key \subseteq search_words }

\* a fallback loop that accepts an item as soon as one of its words appears
FallbackMatchesAnyWord(map, search_words) ==
    { i \in 1..Len(map) : \E word \in map[i].key : word \in search_words }

\* the fallback loop of find_master_spec (lines 108-110): the items whose
\* every word appears among the search words
FallbackMatches(map, search_words) ==
    { i \in 1..Len(map) : \A word \in map[i].key : word \in search_words }

\* PartDatabase.find_master_spec: the first item in the order of the map
\* whose key is a subset of the search words, else the first one accepted
\* by the fallback loop, else None
find_master_spec(maps, master_db_key, product_name, product_chipset) ==
    IF MapKey(master_db_key) \notin DOMAIN maps THEN NoPart
    ELSE The({ LET map == maps[MapKey(master_db_key)]
                   primary == PrimaryMatches(map, search_words)
                   fallback == FallbackMatches(map, search_words)
               IN  IF search_words = {} THEN NoPart
                   ELSE IF primary # {} THEN map[SetMin(primary)].part
                   ELSE IF fallback # {} THEN map[SetMin(fallback)].part
                   ELSE NoPart :
                   search_words \in
                       {normalize_search_term(OrStr(product_chipset, product_name))} })

\* a turn of the loop that copies only the keys the product lacks
EnrichedProductKeepsExisting(maps, product, product_key, master_db_key, match_field, specs_to_copy) ==
    The({ IF master_spec = NoPart THEN product
          ELSE [k \in DOMAIN product \cup (specs_to_copy \cap DOMAIN master_spec) |->
                   IF k \in DOMAIN product THEN product[k] ELSE master_spec[k]] :
              master_spec \in
                  {find_master_spec(maps, master_db_key,
                                    GetStr(product, "name", NoneStr),
                                    GetStr(product, "chipset", NoneStr))} })

\* one turn of the loop of enrich_product_database: the product after it
EnrichedProduct(maps, product, product_key, master_db_key, match_field, specs_to_copy) ==
    LET search_term ==
            IF TruthyStr(GetStr(product, match_field, NoneStr))
            THEN product[match_field]
            ELSE IF product_key = "video-card"
            THEN GetStr(product, "chipset", NoneStr)
            ELSE NoneStr
    IN  IF ~TruthyStr(search_term) THEN product
        ELSE The({ IF master_spec = NoPart THEN product
                   ELSE [k \in DOMAIN product
                               \cup (specs_to_copy \cap DOMAIN master_spec) |->
                            IF k \in specs_to_copy \cap DOMAIN master_spec
                            THEN master_spec[k]
                            ELSE product[k]] :
                       master_spec \in
                           {find_master_spec(maps, master_db_key,
                                             GetStr(product, "name", NoneStr),
                                             GetStr(product, "chipset", NoneStr))} })

\* PartDatabase.enrich_product_database: the catalogue after the call
enrich_product_database(db, maps, product_key, master_db_key, match_field, specs_to_copy) ==
    IF product_key \notin DOMAIN db \/ master_db_key \notin DOMAIN db THEN db
    ELSE [db EXCEPT ![product_key] =
             [i \in 1..Len(@) |->
                 EnrichedProduct(maps, @[i], product_key, master_db_key,
                                 match_field, specs_to_copy)]]

\* the spec keys copied at start-up (app.py:101-108, main.py:76-80)
CPU_SPECS ==
    {"Physical - Socket", "Architecture - Memory Support", "Performance - TDP"}

GPU_SPECS(front) ==
    {"Board Design - TDP", "Memory - Memory Size"}
    \cup (IF front = "web" THEN {"chipset"} ELSE {})

-----------------------------------------------------------------------------
(* PartList and the session build of the web application                   *)

Slots == {"cpu", "gpu", "motherboard", "ram", "psu", "case"}

SlotOrder == <<"cpu", "gpu", "motherboard", "ram", "psu", "case">>

\* PartList.__init__
EmptyParts == [slot \in Slots |-> NoPart]

\* PartList.add_part: the parts after the call
add_part(parts, part_type, part_data) ==
    IF part_type \in DOMAIN parts
    THEN [parts EXCEPT ![part_type] = part_data]
    ELSE parts

\* the term one slot adds to the total in PartList.get_total_price: the
\* try/except skips a price that float() rejects
PartListPriceTerm(part) ==
    IF part # NoPart /\ Truthy(Get(part, "price"))
    THEN IF PyNumber(part["price"]).ok THEN PyNumber(part["price"]).v ELSE 0
    ELSE 0

\* sum of a list of numbers
RECURSIVE SumSeq(_)
SumSeq(terms) == IF terms = <<>> THEN 0 ELSE Head(terms) + SumSeq(Tail(terms))

\* PartList.get_total_price
get_total_price(parts) ==
    SumSeq([i \in 1..Len(SlotOrder) |-> PartListPriceTerm(parts[SlotOrder[i]])])

\* select_part (app.py) recomputes the total without a try/except: the
\* first price that float() rejects raises
SelectPartRaises(parts) ==
    \E slot \in Slots :
        /\ parts[slot] # NoPart
        /\ Truthy(Get(parts[slot], "price"))
        /\ ~PyNumber(parts[slot]["price"]).ok

SelectPartTerm(part) ==
    IF part # NoPart /\ Truthy(Get(part, "price"))
    THEN PyNumber(part["price"]).v
    ELSE 0

SelectPartTotal(parts) ==
    SumSeq([i \in 1..Len(SlotOrder) |-> SelectPartTerm(parts[SlotOrder[i]])])

\* json_key_map of app.py and JSON_FILE_MAP of main.py
JsonKey(part_type) ==
    CASE part_type = "cpu"         -> "cpu"
      [] part_type = "gpu"         -> "video-card"
      [] part_type = "motherboard" -> "motherboard"
      [] part_type = "ram"         -> "memory"
      [] part_type = "psu"         -> "power-supply"
      [] part_type = "case"        -> "case"
      [] OTHER                     -> "<None>"

-----------------------------------------------------------------------------
(* String literals of the catalogue data                                   *)

NAME_R5 == <<"R", "5">>

NAME_I5 == <<"i", "5">>

NAME_X3 == <<"X", "3">>

NAME_B450 == <<"B", "4", "5", "0">>

NAME_B660 == <<"B", "6", "6", "0">>

NAME_MB == <<"M", "B">>

NAME_RAM4 == <<"R", "A", "M", "4">>

NAME_RAM5 == <<"R", "A", "M", "5">>

NAME_GPU_BIG == <<"G", "P", "U", " ", "B", "I", "G">>

NAME_GPU_SMALL == <<"G", "P", "U", " ", "S">>

NAME_RTX == <<"R", "T", "X">>

NAME_RX == <<"R", "X">>

NAME_PSU650 == <<"P", "S", "U", "6", "5", "0">>

NAME_PSU450 == <<"P", "S", "U", "4", "5", "0">>

NAME_CASE == <<"C", "A", "S", "E">>

NAME_R7 == <<"R", "7">>

NAME_A320 == <<"A", "3", "2", "0">>

NAME_CASE_B == <<"C", "A", "S", "E", " ", "B">>

SOCK_AMD_AM4 == <<"A", "M", "D", " ", "S", "o", "c", "k", "e", "t", " ", "A", "M", "4">>

SOCK_INTEL_1700 == <<"I", "n", "t", "e", "l", " ", "S", "o", "c", "k", "e", "t", " ", "1", "7", "0", "0">>

SOCK_AM4 == <<"A", "M", "4">>

SOCK_LGA_1700 == <<"L", "G", "A", " ", "1", "7", "0", "0">>

MEM_DDR4_DDR5 == <<"D", "D", "R", "4", ",", " ", "D", "D", "R", "5">>

-----------------------------------------------------------------------------
(* CompatibilityChecker.check_build                                        *)

NOT_FOUND == <<"N", "O", "T", "_", "F", "O", "U", "N", "D">>

\* the socket check on the raw socket strings
SocketWarningsRaw(parts) ==
    LET cpu == parts["cpu"]
        mobo == parts["motherboard"]
    IN  IF cpu = NoPart \/ mobo = NoPart THEN <<>>
        ELSE LET cpu_socket_raw ==
                     OrStr(GetStr(cpu, "Physical - Socket", NoneStr),
                           GetStr(cpu, "socket", NoneStr))
                 mobo_socket_raw ==
                     OrStr(GetStr(mobo, "socket", NoneStr),
                           GetStr(mobo, "Physical - Socket", NoneStr))
             IN  IF ~TruthyStr(cpu_socket_raw) \/ ~TruthyStr(mobo_socket_raw)
                 THEN << [kind |-> "socket_not_checked"] >>
                 ELSE IF cpu_socket_raw # mobo_socket_raw
                 THEN << [kind |-> "socket_incompatible",
                          cpu_socket |-> cpu_socket_raw,
                          mobo_socket |-> mobo_socket_raw] >>
                 ELSE <<>>

\* 1. CPU <-> motherboard socket check
SocketWarnings(parts) ==
    LET cpu == parts["cpu"]
        mobo == parts["motherboard"]
    IN  IF cpu = NoPart \/ mobo = NoPart THEN <<>>
        ELSE LET cpu_socket_raw ==
                     OrStr(GetStr(cpu, "Physical - Socket", NoneStr),
                           GetStr(cpu, "socket", NoneStr))
                 mobo_socket_raw ==
                     OrStr(GetStr(mobo, "socket", NoneStr),
                           GetStr(mobo, "Physical - Socket", NoneStr))
             IN  IF ~TruthyStr(cpu_socket_raw) \/ ~TruthyStr(mobo_socket_raw)
                 THEN << [kind |-> "socket_not_checked"] >>
                 ELSE LET cpu_socket == checker_normalize_socket(cpu_socket_raw)
                          mobo_socket == checker_normalize_socket(mobo_socket_raw)
                      IN  IF cpu_socket # mobo_socket
                          THEN << [kind |-> "socket_incompatible",
                                   cpu_socket |-> cpu_socket,
                                   mobo_socket |-> mobo_socket] >>
                          ELSE <<>>

\* the memory check without the fallback to the motherboard
MemoryWarningsCpuOnly(parts) ==
    LET cpu == parts["cpu"]
        mobo == parts["motherboard"]
        ram == parts["ram"]
    IN  IF ram = NoPart \/ (cpu = NoPart /\ mobo = NoPart) THEN <<>>
        ELSE LET ram_speed_data == GetOr(ram, "speed", <<0, 0>>)
                 ram_type == DDR \o IntToStr(ram_speed_data[1])
                 mem_support ==
                     IF cpu # NoPart
                     THEN GetStr(cpu, "Architecture - Memory Support", NOT_FOUND)
                     ELSE NOT_FOUND
             IN  IF StrContains(NOT_FOUND, mem_support)
                 THEN << [kind |-> "memory_not_checked"] >>
                 ELSE IF ~StrContains(ram_type, mem_support)
                 THEN << [kind |-> "memory_incompatible",
                          ram_type |-> ram_type,
                          mem_support |-> mem_support] >>
                 ELSE <<>>

\* 2. RAM <-> CPU/motherboard memory type check
MemoryWarnings(parts) ==
    LET cpu == parts["cpu"]
        mobo == parts["motherboard"]
        ram == parts["ram"]
    IN  IF ram = NoPart \/ (cpu = NoPart /\ mobo = NoPart) THEN <<>>
        ELSE LET ram_speed_data == GetOr(ram, "speed", <<0, 0>>)
                 ram_type == DDR \o IntToStr(ram_speed_data[1])
                 from_cpu ==
                     IF cpu # NoPart
                     THEN GetStr(cpu, "Architecture - Memory Support", NOT_FOUND)
                     ELSE NOT_FOUND
                 mem_support ==
                     IF StrContains(NOT_FOUND, from_cpu) /\ mobo # NoPart
                     THEN GetStr(mobo, "Architecture - Memory Support", NOT_FOUND)
                     ELSE from_cpu
             IN  IF StrContains(NOT_FOUND, mem_support)
                 THEN << [kind |-> "memory_not_checked"] >>
                 ELSE IF ~StrContains(ram_type, mem_support)
                 THEN << [kind |-> "memory_incompatible",
                          ram_type |-> ram_type,
                          mem_support |-> mem_support] >>
                 ELSE <<>>

\* int(total_power / 0.7)
MinSafePsu(total_power) == (10 * total_power) \div 7

\* 3. PSU <-> (CPU + GPU) power check
PowerWarnings(parts) ==
    LET cpu == parts["cpu"]
        gpu == parts["gpu"]
        psu == parts["psu"]
    IN  IF psu = NoPart \/ (cpu = NoPart /\ gpu = NoPart) THEN <<>>
        ELSE LET cpu_power ==
                     IF cpu # NoPart
                     THEN PyNumber(GetOr(cpu, "Performance - TDP", Num(0)))
                     ELSE PyNumber(Num(0))
                 gpu_power ==
                     IF gpu # NoPart
                     THEN PyNumber(GetOr(gpu, "Board Design - TDP", Num(0)))
                     ELSE PyNumber(Num(0))
                 psu_power == PyNumber(GetOr(psu, "wattage", Num(0)))
                 total_power == cpu_power.v + gpu_power.v + 100
             IN  IF ~cpu_power.ok
                 THEN << [kind |-> "psu_check_failed", exc |-> cpu_power.exc] >>
                 ELSE IF ~gpu_power.ok
                 THEN << [kind |-> "psu_check_failed", exc |-> gpu_power.exc] >>
                 ELSE IF ~psu_power.ok
                 THEN << [kind |-> "psu_check_failed", exc |-> psu_power.exc] >>
                 ELSE IF psu_power.v = 0
                 THEN << [kind |-> "psu_not_checked"] >>
                 ELSE IF WattageTooLow(psu_power.v, total_power)
                 THEN << [kind |-> "power_risky",
                          total_power |-> total_power,
                          psu_power |-> psu_power.v,
                          min_safe_psu |-> MinSafePsu(total_power)] >>
                 ELSE IF total_power > psu_power.v
                 THEN << [kind |-> "power_incompatible",
                          total_power |-> total_power,
                          psu_power |-> psu_power.v] >>
                 ELSE <<>>

check_build(parts) ==
    SocketWarnings(parts) \o MemoryWarnings(parts) \o PowerWarnings(parts)

-----------------------------------------------------------------------------
(* AutoBuilder                                                             *)

\* the budget splits, in percent
GAMING_SPLITS ==
    [cpu |-> 20, gpu |-> 40, motherboard |-> 15, ram |-> 15, other |-> 10]

WORKSTATION_SPLITS ==
    [cpu |-> 35, gpu |-> 20, motherboard |-> 15, ram |-> 20, other |-> 10]

\* amounts of money are integers in units of 1/MoneyScale, so that a
\* percentage of a budget and half of it are exact
MoneyScale == 100 * 2

Money(price) == price * MoneyScale

\* budgets = {category: total_budget * splits[category]}
Budgets(tb, prp) ==
    LET splits == IF prp = "gaming" THEN GAMING_SPLITS ELSE WORKSTATION_SPLITS
    IN  [k \in DOMAIN splits |-> tb * splits[k] * (MoneyScale \div 100)]

\* s.strip()
RECURSIVE StrStrip(_)
StrStrip(s) ==
    IF s = <<>> THEN s
    ELSE IF IsSpace(Head(s)) THEN StrStrip(Tail(s))
    ELSE IF IsSpace(s[Len(s)]) THEN StrStrip(SubSeq(s, 1, Len(s) - 1))
    ELSE s

\* s.split(',')[0].strip()
FirstCommaToken(s) ==
    LET i == StrFind(<<",">>, s)
    IN  StrStrip(IF i = 0 THEN s ELSE SubSeq(s, 1, i - 1))

\* the socket constraint with the motherboard's socket taking precedence
SocketConstraintMoboFirst(parts) ==
    LET cpu == parts["cpu"]
        mobo == parts["motherboard"]
    IN  IF mobo # NoPart /\ TruthyStr(GetStr(mobo, "socket", NoneStr))
        THEN autobuilder_normalize_socket(mobo["socket"])
        ELSE IF cpu # NoPart /\ TruthyStr(GetStr(cpu, "Physical - Socket", NoneStr))
        THEN autobuilder_normalize_socket(cpu["Physical - Socket"])
        ELSE NoneStr

\* the socket constraint taken from the record as it is written
SocketConstraintRaw(parts) ==
    LET cpu == parts["cpu"]
        mobo == parts["motherboard"]
    IN  IF cpu # NoPart
        THEN IF TruthyStr(GetStr(cpu, "Physical - Socket", NoneStr))
             THEN cpu["Physical - Socket"]
             ELSE NoneStr
        ELSE IF mobo # NoPart
        THEN IF TruthyStr(GetStr(mobo, "socket", NoneStr))
             THEN mobo["socket"]
             ELSE NoneStr
        ELSE NoneStr

\* 1. socket constraint
SocketConstraint(parts) ==
    LET cpu == parts["cpu"]
        mobo == parts["motherboard"]
    IN  IF cpu # NoPart
        THEN IF TruthyStr(GetStr(cpu, "Physical - Socket", NoneStr))
             THEN autobuilder_normalize_socket(cpu["Physical - Socket"])
             ELSE NoneStr
        ELSE IF mobo # NoPart
        THEN IF TruthyStr(GetStr(mobo, "socket", NoneStr))
             THEN autobuilder_normalize_socket(mobo["socket"])
             ELSE NoneStr
        ELSE NoneStr

\* the memory type constraint as the first type the CPU lists
MemoryTypeConstraintFirstListed(parts) ==
    LET cpu == parts["cpu"]
        mem_support ==
            IF cpu # NoPart
            THEN GetStr(cpu, "Architecture - Memory Support", NoneStr)
            ELSE NoneStr
    IN  IF ~TruthyStr(mem_support) THEN NoneStr
        ELSE FirstCommaToken(mem_support)

\* 2. memory type constraint
MemoryTypeConstraint(parts) ==
    LET cpu == parts["cpu"]
        mem_support ==
            IF cpu # NoPart
            THEN GetStr(cpu, "Architecture - Memory Support", NoneStr)
            ELSE NoneStr
    IN  IF ~TruthyStr(mem_support) THEN NoneStr
        ELSE IF StrContains(DDR5, mem_support) THEN DDR5
        ELSE IF StrContains(DDR4, mem_support) THEN DDR4
        ELSE FirstCommaToken(mem_support)

\* 3. power constraint: any exception of the int() conversions is swallowed
\* and leaves the key out
PowerConstraint(parts) ==
    LET cpu == parts["cpu"]
        gpu == parts["gpu"]
        cpu_power ==
            IF cpu # NoPart
            THEN PyNumber(GetOr(cpu, "Performance - TDP", Num(0)))
            ELSE PyNumber(Num(0))
        gpu_power ==
            IF gpu # NoPart
            THEN PyNumber(GetOr(gpu, "Board Design - TDP", Num(0)))
            ELSE PyNumber(Num(0))
    IN  IF cpu_power.ok /\ gpu_power.ok /\ (cpu_power.v > 0 \/ gpu_power.v > 0)
        THEN Num(cpu_power.v + gpu_power.v + 100)
        ELSE None

\* AutoBuilder._get_constraints
get_constraints(parts) ==
    [socket          |-> SocketConstraint(parts),
     memory_type     |-> MemoryTypeConstraint(parts),
     estimated_power |-> PowerConstraint(parts)]

\* p.get('price') and p.get('price') <= budget: comparing a str with the
\* float budget raises TypeError
PriceComparisonRaises(part) ==
    LET price == Get(part, "price")
    IN  Truthy(price) /\ price.t = "str"

\* a budget filter that keeps every part with a price
AffordableAtAnyPrice(part, budget) ==
    LET price == Get(part, "price")
    IN  Truthy(price)

\* p.get('price') and p.get('price') <= budget
Affordable(part, budget) ==
    LET price == Get(part, "price")
    IN  Truthy(price) /\ Money(price.v) <= budget

\* of several parts at the highest price, the last in list order
MostExpensiveLast(parts) ==
    The({ list[CHOOSE i \in 1..Len(list) :
                   /\ \A j \in 1..Len(list) : list[j]["price"].v <= list[i]["price"].v
                   /\ \A j \in (i + 1)..Len(list) : list[j]["price"].v < list[i]["price"].v] :
              list \in {parts} })

\* sorted(parts, key=price, reverse=True)[0]: the sort is stable, so of
\* several parts at the highest price the first in list order comes first
MostExpensiveFirst(parts) ==
    The({ list[CHOOSE i \in 1..Len(list) :
                   /\ \A j \in 1..Len(list) : list[j]["price"].v <= list[i]["price"].v
                   /\ \A j \in 1..(i - 1) : list[j]["price"].v < list[i]["price"].v] :
              list \in {parts} })

\* AutoBuilder._pick_part on the catalogue db: the part, no part, or the
\* exception raised
pick_part(db, json_key, budget, constraints) ==
    LET IsAffordable(part) == Affordable(part, budget)
        MentionsDdr5(part) ==
            StrContains(DDR5, GetStr(part, "Architecture - Memory Support", <<>>))
    IN  The({ IF \E i \in 1..Len(all_parts) : PriceComparisonRaises(all_parts[i])
              THEN [exc |-> "TypeError", part |-> NoPart]
              ELSE The({ IF affordable_parts = <<>>
                         THEN [exc |-> "none", part |-> NoPart]
                         ELSE IF /\ json_key = "cpu"
                                 /\ SelectSeq(affordable_parts, MentionsDdr5) # <<>>
                         THEN [exc  |-> "none",
                               part |-> MostExpensiveFirst(
                                            SelectSeq(affordable_parts, MentionsDdr5))]
                         ELSE [exc  |-> "none",
                               part |-> MostExpensiveFirst(affordable_parts)] :
                             affordable_parts \in {SelectSeq(all_parts, IsAffordable)} }) :
                  all_parts \in {search_parts(db, json_key, <<>>, constraints)} })

\* the outcomes of run_auto_build
NoBuild == [no_build |-> TRUE]

NoResult == [status |-> "none", build |-> NoBuild, messages |-> <<>>]

\* a failure that hands back the parts picked so far
FailureKeepsBuild(message) ==
    [status |-> "failure", build |-> build, messages |-> <<message>>]

\* return None, [message]
Failure(message) ==
    [status |-> "failure", build |-> NoBuild, messages |-> <<message>>]

\* return build, warnings
Success(parts, warnings) ==
    [status |-> "success", build |-> parts, messages |-> warnings]

\* an exception leaves run_auto_build
Raised(exc) ==
    [status |-> "raised", build |-> NoBuild,
     messages |-> << [kind |-> "exception", exc |-> exc] >>]

\* no engine operation has been called
NoCall == [none |-> TRUE]

\* no engine operation is called on its own
NoCallIn == [none |-> TRUE]

\* no _pick_part call outside run_auto_build
NoPick == [exc |-> "none", part |-> NoPart]

NoPickIn == [json_key |-> "<None>", budget |-> 0, constraints |-> NoConstraints]

\* no manual build is under way
ManualIdle ==
    /\ frontend = "cli"
    /\ part_list = EmptyParts
    /\ shown_total = 0
    /\ session_build = [parts |-> EmptyParts, total_price |-> 0]
    /\ err = "none"

\* no separate _normalize_socket call is under way
NormIdle ==
    /\ norm_in = <<>>
    /\ norm_out = NoNormOut
    /\ norm_done = FALSE

\* no manual build and no separate call is under way
OtherIdle ==
    /\ frontend = "cli"
    /\ part_list = EmptyParts
    /\ shown_total = 0
    /\ session_build = [parts |-> EmptyParts, total_price |-> 0]
    /\ err = "none"
    /\ pick_in = NoPickIn
    /\ pick_out = NoPick
    /\ pick_done = FALSE
    /\ norm_in = <<>>
    /\ norm_out = NoNormOut
    /\ norm_done = FALSE

\* start-up is over; the catalogue came without master databases, so the
\* index is the empty dict
StartedUp ==
    /\ master_spec_maps = <<>>
    /\ phase = "ready"
    /\ call_out = NoCall
    /\ call_in = NoCallIn

\* AutoBuilder.__init__: no call of run_auto_build yet
RunIdle ==
    /\ pc = "idle"
    /\ total_budget = 0
    /\ purpose = "gaming"
    /\ build = EmptyParts
    /\ budget_rollover = 0
    /\ gpu_budget_final = 0
    /\ result = NoResult
    /\ pick_default = NoConstraints
    /\ attempts = <<>>
    /\ prev_result = NoResult
    /\ runs = 0

\* AutoBuilder.run_auto_build as one call on the catalogue db: what it
\* returns or raises
run_auto_build(db, tb, prp, default) ==
    LET budgets == Budgets(tb, prp)
        other_budget_each == budgets["other"] \div 2
        cpu == pick_part(db, "cpu", budgets["cpu"], default)
        build1 == add_part(EmptyParts, "cpu", cpu.part)
        rollover1 == budgets["cpu"] - Money(cpu.part["price"].v)
        constraints1 == get_constraints(build1)
        mobo == pick_part(db, "motherboard", budgets["motherboard"], constraints1)
        build2 == add_part(build1, "motherboard", mobo.part)
        rollover2 == rollover1 + (budgets["motherboard"] - Money(mobo.part["price"].v))
        constraints2 == get_constraints(build2)
        ram == pick_part(db, "memory", budgets["ram"], constraints2)
        build3 == add_part(build2, "ram", ram.part)
        rollover3 == rollover2 + (budgets["ram"] - Money(ram.part["price"].v))
        gpu == pick_part(db, "video-card", budgets["gpu"] + rollover3, default)
        build4 == add_part(build3, "gpu", gpu.part)
        constraints4 == get_constraints(build4)
        psu == pick_part(db, "power-supply", other_budget_each, constraints4)
        build5 == add_part(build4, "psu", psu.part)
        case == pick_part(db, "case", other_budget_each, default)
        build6 == IF case.part # NoPart
                  THEN add_part(build5, "case", case.part)
                  ELSE build5
    IN  IF cpu.exc # "none" THEN Raised(cpu.exc)
        ELSE IF cpu.part = NoPart THEN Failure([kind |-> "no_cpu"])
        ELSE IF mobo.exc # "none" THEN Raised(mobo.exc)
        ELSE IF mobo.part = NoPart
        THEN Failure([kind     |-> "no_mobo",
                      cpu_name |-> cpu.part["name"],
                      socket   |-> constraints1.socket])
        ELSE IF ram.exc # "none" THEN Raised(ram.exc)
        ELSE IF ram.part = NoPart
        THEN Failure([kind |-> "no_ram", memory_type |-> constraints2.memory_type])
        ELSE IF gpu.exc # "none" THEN Raised(gpu.exc)
        ELSE IF gpu.part = NoPart THEN Failure([kind |-> "no_gpu"])
        ELSE IF psu.exc # "none" THEN Raised(psu.exc)
        ELSE IF psu.part = NoPart THEN Failure([kind |-> "no_psu"])
        ELSE IF case.exc # "none" THEN Raised(case.exc)
        ELSE Success(build6, check_build(build6))

\* the state of the variables that no AutoBuilder step touches
RunFrame ==
    /\ UNCHANGED <<data, total_budget, purpose, pick_default, prev_result, runs>>
    /\ UNCHANGED <<frontend, part_list, shown_total, session_build, err>>
    /\ UNCHANGED startVars
    /\ UNCHANGED <<pick_in, pick_out, pick_done>>
    /\ UNCHANGED <<norm_in, norm_out, norm_done>>

\* a call that starts from the rollover the previous call left behind
StartRunKeepsRollover(tb, prp) ==
    /\ phase = "ready"
    /\ pc \in {"idle", "done"}
    /\ pc = "done" => tb = total_budget /\ prp = purpose
    /\ pc' = "cpu"
    /\ total_budget' = tb
    /\ purpose' = prp
    /\ build' = EmptyParts
    /\ budget_rollover' = budget_rollover
    /\ gpu_budget_final' = 0
    /\ result' = NoResult
    /\ attempts' = <<>>
    /\ prev_result' = result
    /\ runs' = runs + 1
    /\ UNCHANGED <<data, pick_default>>
    /\ UNCHANGED <<frontend, part_list, shown_total, session_build, err>>
    /\ UNCHANGED startVars
    /\ UNCHANGED <<pick_in, pick_out, pick_done>>
    /\ UNCHANGED <<norm_in, norm_out, norm_done>>

\* run_auto_build is called (lines 164-184): a fresh PartList, the budget
\* splits and an empty rollover
StartRun(tb, prp) ==
    /\ phase = "ready"
    /\ pc \in {"idle", "done"}
    /\ pc = "done" => tb = total_budget /\ prp = purpose
    /\ pc' = "cpu"
    /\ total_budget' = tb
    /\ purpose' = prp
    /\ build' = EmptyParts
    /\ budget_rollover' = 0
    /\ gpu_budget_final' = 0
    /\ result' = NoResult
    /\ attempts' = <<>>
    /\ prev_result' = result
    /\ runs' = runs + 1
    /\ UNCHANGED <<data, pick_default>>
    /\ UNCHANGED <<frontend, part_list, shown_total, session_build, err>>
    /\ UNCHANGED startVars
    /\ UNCHANGED <<pick_in, pick_out, pick_done>>
    /\ UNCHANGED <<norm_in, norm_out, norm_done>>

\* 1. Pick CPU (lines 188-195)
PickCpu ==
    /\ pc = "cpu"
    /\ \E budgets \in {Budgets(total_budget, purpose)} :
       \E pick \in {pick_part(data, "cpu", budgets["cpu"], pick_default)} :
           /\ attempts' = Append(attempts, "cpu")
           /\ IF pick.exc # "none"
              THEN /\ pc' = "done"
                   /\ result' = Raised(pick.exc)
                   /\ UNCHANGED <<build, budget_rollover>>
              ELSE IF pick.part = NoPart
              THEN /\ pc' = "done"
                   /\ result' = Failure([kind |-> "no_cpu"])
                   /\ UNCHANGED <<build, budget_rollover>>
              ELSE /\ pc' = "motherboard"
                   /\ build' = add_part(build, "cpu", pick.part)
                   /\ budget_rollover' =
                          budget_rollover
                          + (budgets["cpu"] - Money(pick.part["price"].v))
                   /\ UNCHANGED result
    /\ UNCHANGED gpu_budget_final
    /\ RunFrame

\* 2. Pick Mobo (lines 197-205)
PickMotherboard ==
    /\ pc = "motherboard"
    /\ \E budgets \in {Budgets(total_budget, purpose)} :
       \E constraints \in {get_constraints(build)} :
       \E pick \in {pick_part(data, "motherboard", budgets["motherboard"], constraints)} :
           /\ attempts' = Append(attempts, "motherboard")
           /\ IF pick.exc # "none"
              THEN /\ pc' = "done"
                   /\ result' = Raised(pick.exc)
                   /\ UNCHANGED <<build, budget_rollover>>
              ELSE IF pick.part = NoPart
              THEN /\ pc' = "done"
                   /\ result' = Failure([kind     |-> "no_mobo",
                                         cpu_name |-> build["cpu"]["name"],
                                         socket   |-> constraints.socket])
                   /\ UNCHANGED <<build, budget_rollover>>
              ELSE /\ pc' = "ram"
                   /\ build' = add_part(build, "motherboard", pick.part)
                   /\ budget_rollover' =
                          budget_rollover
                          + (budgets["motherboard"] - Money(pick.part["price"].v))
                   /\ UNCHANGED result
    /\ UNCHANGED gpu_budget_final
    /\ RunFrame

\* a RAM step that keeps what it saved instead of rolling it over
PickRamKeepsSavings ==
    /\ pc = "ram"
    /\ \E budgets \in {Budgets(total_budget, purpose)} :
       \E constraints \in {get_constraints(build)} :
       \E pick \in {pick_part(data, "memory", budgets["ram"], constraints)} :
           /\ attempts' = Append(attempts, "memory")
           /\ IF pick.exc # "none"
              THEN /\ pc' = "done"
                   /\ result' = Raised(pick.exc)
                   /\ UNCHANGED build
              ELSE IF pick.part = NoPart
              THEN /\ pc' = "done"
                   /\ result' = Failure([kind        |-> "no_ram",
                                         memory_type |-> constraints.memory_type])
                   /\ UNCHANGED build
              ELSE /\ pc' = "gpu"
                   /\ build' = add_part(build, "ram", pick.part)
                   /\ UNCHANGED result
    /\ UNCHANGED <<budget_rollover, gpu_budget_final>>
    /\ RunFrame

\* 3. Pick RAM (lines 208-216)
PickRam ==
    /\ pc = "ram"
    /\ \E budgets \in {Budgets(total_budget, purpose)} :
       \E constraints \in {get_constraints(build)} :
       \E pick \in {pick_part(data, "memory", budgets["ram"], constraints)} :
           /\ attempts' = Append(attempts, "memory")
           /\ IF pick.exc # "none"
              THEN /\ pc' = "done"
                   /\ result' = Raised(pick.exc)
                   /\ UNCHANGED <<build, budget_rollover>>
              ELSE IF pick.part = NoPart
              THEN /\ pc' = "done"
                   /\ result' = Failure([kind        |-> "no_ram",
                                         memory_type |-> constraints.memory_type])
                   /\ UNCHANGED <<build, budget_rollover>>
              ELSE /\ pc' = "gpu"
                   /\ build' = add_part(build, "ram", pick.part)
                   /\ budget_rollover' =
                          budget_rollover
                          + (budgets["ram"] - Money(pick.part["price"].v))
                   /\ UNCHANGED result
    /\ UNCHANGED gpu_budget_final
    /\ RunFrame

\* 4. Pick GPU (lines 219-225)
PickGpu ==
    /\ pc = "gpu"
    /\ \E budgets \in {Budgets(total_budget, purpose)} :
       \E final \in {budgets["gpu"] + budget_rollover} :
       \E pick \in {pick_part(data, "video-card", final, pick_default)} :
           /\ attempts' = Append(attempts, "video-card")
           /\ gpu_budget_final' = final
           /\ IF pick.exc # "none"
              THEN /\ pc' = "done"
                   /\ result' = Raised(pick.exc)
                   /\ UNCHANGED build
              ELSE IF pick.part = NoPart
              THEN /\ pc' = "done"
                   /\ result' = Failure([kind |-> "no_gpu"])
                   /\ UNCHANGED build
              ELSE /\ pc' = "psu"
                   /\ build' = add_part(build, "gpu", pick.part)
                   /\ UNCHANGED result
    /\ UNCHANGED budget_rollover
    /\ RunFrame

\* 5. Pick PSU (lines 227-234)
PickPsu ==
    /\ pc = "psu"
    /\ \E budgets \in {Budgets(total_budget, purpose)} :
       \E other_budget_each \in {budgets["other"] \div 2} :
       \E constraints \in {get_constraints(build)} :
       \E pick \in {pick_part(data, "power-supply", other_budget_each, constraints)} :
           /\ attempts' = Append(attempts, "power-supply")
           /\ IF pick.exc # "none"
              THEN /\ pc' = "done"
                   /\ result' = Raised(pick.exc)
                   /\ UNCHANGED build
              ELSE IF pick.part = NoPart
              THEN /\ pc' = "done"
                   /\ result' = Failure([kind |-> "no_psu"])
                   /\ UNCHANGED build
              ELSE /\ pc' = "case"
                   /\ build' = add_part(build, "psu", pick.part)
                   /\ UNCHANGED result
    /\ UNCHANGED <<budget_rollover, gpu_budget_final>>
    /\ RunFrame

\* a case step that gives the build up when no case is found
PickCaseRequired ==
    /\ pc = "case"
    /\ \E budgets \in {Budgets(total_budget, purpose)} :
       \E other_budget_each \in {budgets["other"] \div 2} :
       \E pick \in {pick_part(data, "case", other_budget_each, pick_default)} :
           /\ attempts' = Append(attempts, "case")
           /\ pc' = "done"
           /\ IF pick.exc # "none"
              THEN /\ result' = Raised(pick.exc)
                   /\ UNCHANGED build
              ELSE IF pick.part = NoPart
              THEN /\ result' = Failure([kind |-> "no_case"])
                   /\ UNCHANGED build
              ELSE /\ build' = add_part(build, "case", pick.part)
                   /\ result' = Success(add_part(build, "case", pick.part),
                                        check_build(add_part(build, "case", pick.part)))
    /\ UNCHANGED <<budget_rollover, gpu_budget_final>>
    /\ RunFrame

\* Pick Case and 6. Final Check (lines 236-243)
PickCase ==
    /\ pc = "case"
    /\ \E budgets \in {Budgets(total_budget, purpose)} :
       \E other_budget_each \in {budgets["other"] \div 2} :
       \E pick \in {pick_part(data, "case", other_budget_each, pick_default)} :
       \E parts \in {IF pick.part # NoPart THEN add_part(build, "case", pick.part) ELSE build} :
           /\ attempts' = Append(attempts, "case")
           /\ pc' = "done"
           /\ IF pick.exc # "none"
              THEN /\ result' = Raised(pick.exc)
                   /\ UNCHANGED build
              ELSE /\ build' = parts
                   /\ result' = Success(parts, check_build(parts))
    /\ UNCHANGED <<budget_rollover, gpu_budget_final>>
    /\ RunFrame

-----------------------------------------------------------------------------
(* The part records the catalogues of the model are drawn from             *)

Rec2(k1, v1, k2, v2) == (k1 :> v1) @@ (k2 :> v2)

CpuAm4 ==
    Rec2("name", NAME_R5, "price", Num(180))
    @@ Rec2("Physical - Socket", SOCK_AMD_AM4,
            "Architecture - Memory Support", DDR4)
    @@ ("Performance - TDP" :> Num(65))

CpuIntel ==
    Rec2("name", NAME_I5, "price", Num(350))
    @@ Rec2("Physical - Socket", SOCK_INTEL_1700,
            "Architecture - Memory Support", MEM_DDR4_DDR5)
    @@ ("Performance - TDP" :> Num(125))

\* a CPU listing that enrichment did not match
CpuBare == Rec2("name", NAME_X3, "price", Num(200))

MbAm4 == Rec2("name", NAME_B450, "price", Num(100)) @@ ("socket" :> SOCK_AM4)

Mb1700 == Rec2("name", NAME_B660, "price", Num(150)) @@ ("socket" :> SOCK_LGA_1700)

\* a motherboard listing without a socket field
MbNoSocket == Rec2("name", NAME_MB, "price", Num(140))

RamDdr4 ==
    Rec2("name", NAME_RAM4, "price", Num(60))
    @@ Rec2("speed", <<4, 3200>>, "modules", <<2, 8>>)

RamDdr5 ==
    Rec2("name", NAME_RAM5, "price", Num(120))
    @@ Rec2("speed", <<5, 6000>>, "modules", <<2, 16>>)

GpuBig ==
    Rec2("name", NAME_GPU_BIG, "price", Num(600))
    @@ Rec2("chipset", NAME_RTX, "Board Design - TDP", Num(230))

GpuSmall ==
    Rec2("name", NAME_GPU_SMALL, "price", Num(250))
    @@ Rec2("chipset", NAME_RX, "Board Design - TDP", Num(115))

Psu650 == Rec2("name", NAME_PSU650, "price", Num(90)) @@ ("wattage" :> Num(650))

Psu450 == Rec2("name", NAME_PSU450, "price", Num(40)) @@ ("wattage" :> Num(450))

CaseA == Rec2("name", NAME_CASE, "price", Num(60))

\* listings with a price that is missing, null, zero, empty, a numeric
\* string or an unparseable string
CpuNoPrice == ("name" :> NAME_R7) @@ ("Physical - Socket" :> SOCK_AMD_AM4)

GpuNullPrice == Rec2("name", NAME_GPU_SMALL, "price", None) @@ ("chipset" :> NAME_RX)

MbZeroPrice == Rec2("name", NAME_A320, "price", Num(0)) @@ ("socket" :> SOCK_AM4)

RamStringPrice ==
    Rec2("name", NAME_RAM4, "price", Str(<<"1", "2", "0">>))
    @@ Rec2("speed", <<4, 3200>>, "modules", <<2, 8>>)

PsuEmptyPrice == Rec2("name", NAME_PSU450, "price", Str(<<>>)) @@ ("wattage" :> Num(450))

CaseBadPrice == Rec2("name", NAME_CASE_B, "price", Str(<<"N", "/", "A">>))

-----------------------------------------------------------------------------
(* Specification Spec: run_auto_build, called once or twice with the same  *)
(* arguments, on every catalogue that lists at most MaxParts parts of each *)
(* category, taken in order from the pools below                           *)

MaxParts == 2

MaxBudgetUnits == 2

MaxRuns == 2

CpuPool == <<CpuAm4, CpuBare, CpuIntel>>

MoboPool == <<MbAm4, MbNoSocket, Mb1700>>

RamPool == <<RamDdr4, RamDdr5>>

GpuPool == <<GpuSmall, GpuBig>>

PsuPool == <<Psu450, Psu650>>

CasePool == <<CaseA>>

\* the elements of pool at the positions in keep, in pool order
RECURSIVE SubListFrom(_, _, _)
SubListFrom(pool, keep, i) ==
    IF i > Len(pool) THEN <<>>
    ELSE (IF i \in keep THEN <<pool[i]>> ELSE <<>>)
         \o SubListFrom(pool, keep, i + 1)

SubLists(pool) ==
    { SubListFrom(pool, keep, 1) :
          keep \in { k \in SUBSET (1..Len(pool)) : Cardinality(k) <= MaxParts } }

Catalogues ==
    { [cpu |-> c, motherboard |-> m, memory |-> r, case |-> k]
      @@ Rec2("video-card", g, "power-supply", p) :
          c \in SubLists(CpuPool), m \in SubLists(MoboPool),
          r \in SubLists(RamPool), g \in SubLists(GpuPool),
          p \in SubLists(PsuPool), k \in SubLists(CasePool) }

TotalBudgets == { 1000 * k : k \in 1..MaxBudgetUnits }

Purposes == {"gaming", "workstation"}

Init ==
    /\ data \in Catalogues
    /\ StartedUp
    /\ RunIdle
    /\ OtherIdle

Call ==
    \E tb \in TotalBudgets, prp \in Purposes :
        runs < MaxRuns /\ StartRun(tb, prp)

Next ==
    \/ Call
    \/ PickCpu
    \/ PickMotherboard
    \/ PickRam
    \/ PickGpu
    \/ PickPsu
    \/ PickCase

Spec == Init /\ [][Next]_vars

\* Specification SpecRun: run_auto_build called once on a fresh AutoBuilder
CallOnce ==
    \E tb \in TotalBudgets, prp \in Purposes :
        runs = 0 /\ StartRun(tb, prp)

NextRun ==
    \/ CallOnce
    \/ PickCpu
    \/ PickMotherboard
    \/ PickRam
    \/ PickGpu
    \/ PickPsu
    \/ PickCase

SpecRun == Init /\ [][NextRun]_vars

\* the steps of run_auto_build compose to the call
StepsAgreeWithCall ==
    pc = "done" => result = run_auto_build(data, total_budget, purpose, pick_default)

\* the categories in the order run_auto_build attempts them, the slot each
\* fills and the position of the run before each
RunOrder == <<"cpu", "motherboard", "memory", "video-card", "power-supply", "case">>

RunSlots == <<"cpu", "motherboard", "ram", "gpu", "psu", "case">>

RunPositions == <<"cpu", "motherboard", "ram", "gpu", "psu", "case">>

\* a price that is a nonzero number of at most the budget
InBudget(part, budget) ==
    /\ "price" \in DOMAIN part
    /\ part["price"].t = "num"
    /\ part["price"].v # 0
    /\ part["price"].v * MoneyScale <= budget

\* the budget the n-th category is searched with
StepBudget(n) ==
    LET budgets == Budgets(total_budget, purpose)
    IN  CASE n = 1 -> budgets["cpu"]
          [] n = 2 -> budgets["motherboard"]
          [] n = 3 -> budgets["ram"]
          [] n = 4 -> gpu_budget_final
          [] OTHER -> (total_budget * MoneyScale) \div 20

\* the constraints the n-th category is searched with: those of the parts
\* picked before it for motherboard, RAM and PSU, none for the others
StepConstraints(n) ==
    IF n \in {2, 3, 5} THEN get_constraints(build) ELSE NoConstraints

\* the positions in the catalogue of the candidates of the n-th category
Candidates(n) ==
    The({ { i \in 1..Len(data[RunOrder[n]]) :
                /\ InBudget(data[RunOrder[n]][i], budget)
                /\ passes_constraints(data[RunOrder[n]][i], constraints) } :
              budget \in {StepBudget(n)}, constraints \in {StepConstraints(n)} })

\* the run ended in Failure: no build and exactly one message
EndedInFailure ==
    /\ pc = "done"
    /\ result.status = "failure"
    /\ result.build = NoBuild
    /\ Len(result.messages) = 1

\* C2: run_auto_build attempts CPU, motherboard, RAM, GPU, PSU, case in this
\* order; a category is attempted only when every earlier one was picked; as
\* soon as one of the first five has no candidate the run ends in Failure,
\* with no build, one message and no later category attempted; the call
\* under way returns a Success or a Failure, and so does a finished one
C2_StrictOrderAndFailFast ==
    LET n == Len(attempts)
    IN  /\ n <= 6
        /\ attempts = SubSeq(RunOrder, 1, n)
        /\ pc = "idle" => n = 0
        /\ pc \notin {"idle", "done"} =>
               /\ n < 6
               /\ pc = RunPositions[n + 1]
               /\ \A i \in 1..n : build[RunSlots[i]] # NoPart
               /\ result = NoResult
        /\ (pc = "cpu" /\ n = 0) =>
               run_auto_build(data, total_budget, purpose, pick_default).status
                   \in {"success", "failure"}
        /\ \A i \in 1..(n - 1) : build[RunSlots[i]] # NoPart
        /\ n \in 1..5 =>
               \A candidates \in {Candidates(n)} :
                   /\ candidates = {} =>
                          /\ EndedInFailure
                          /\ build[RunSlots[n]] = NoPart
                   /\ candidates # {} =>
                          /\ pc = RunPositions[n + 1]
                          /\ build[RunSlots[n]] # NoPart
        /\ pc = "done" =>
               /\ n >= 1
               /\ result.status \in {"success", "failure"}
               /\ result.status = "failure" => EndedInFailure /\ n <= 5
               /\ result.status = "success" => n = 6

\* a run that failed at the GPU after CPU, motherboard and RAM were picked
C2_Witness ==
    /\ EndedInFailure
    /\ attempts = <<"cpu", "motherboard", "memory", "video-card">>
    /\ data["video-card"] # <<>>
    /\ build["ram"] # NoPart

\* what the split of a category exceeded the price of the part picked by
Saved(slot, key) ==
    Budgets(total_budget, purpose)[key] - build[slot]["price"].v * MoneyScale

\* C4: the budget the GPU candidates are judged against is the GPU's own
\* split plus the amounts by which the CPU, motherboard and RAM splits
\* exceeded the prices of the parts picked for them
C4_GpuBudgetIsSplitPlusSavings ==
    Len(attempts) >= 4 =>
        /\ gpu_budget_final =
               Budgets(total_budget, purpose)["gpu"]
               + Saved("cpu", "cpu")
               + Saved("motherboard", "motherboard")
               + Saved("ram", "ram")
        /\ build["gpu"] # NoPart <=>
               \E i \in 1..Len(data["video-card"]) :
                   InBudget(data["video-card"][i], gpu_budget_final)
        /\ build["gpu"] # NoPart => InBudget(build["gpu"], gpu_budget_final)

\* a GPU above its own split, picked thanks to savings of all three
\* earlier categories
C4_Witness ==
    /\ Len(attempts) >= 4
    /\ build["gpu"] # NoPart
    /\ ~InBudget(build["gpu"], Budgets(total_budget, purpose)["gpu"])
    /\ Saved("cpu", "cpu") > 0
    /\ Saved("motherboard", "motherboard") > 0
    /\ Saved("ram", "ram") > 0

\* the part costs at most the amount
CostsAtMost(part, amount) == Money(PartListPriceTerm(part)) <= amount

\* C25: the accumulated rollover is never negative, and a run that ends in
\* Success returns a build whose total price is at most total_budget, in
\* which CPU, motherboard and RAM each cost at most their own split and PSU
\* and case each at most half of the "other" split
C25_BudgetNeverExceeded ==
    /\ budget_rollover >= 0
    /\ (pc = "done" /\ result.status = "success") =>
           \A budgets \in {Budgets(total_budget, purpose)} :
               /\ Money(get_total_price(result.build)) <= Money(total_budget)
               /\ CostsAtMost(result.build["cpu"], budgets["cpu"])
               /\ CostsAtMost(result.build["motherboard"], budgets["motherboard"])
               /\ CostsAtMost(result.build["ram"], budgets["ram"])
               /\ CostsAtMost(result.build["psu"], budgets["other"] \div 2)
               /\ CostsAtMost(result.build["case"], budgets["other"] \div 2)

\* a Success with a case and with a GPU dearer than its own split
C25_Witness ==
    /\ pc = "done"
    /\ result.status = "success"
    /\ result.build["case"] # NoPart
    /\ ~CostsAtMost(result.build["gpu"], Budgets(total_budget, purpose)["gpu"])
    /\ budget_rollover > 0

\* C5: when no PSU passes its constraints within half of the "other" split
\* the run ends in Failure; when no case fits the other half the run still
\* ends in Success, with the case slot empty
C5_PsuRequiredCaseOptional ==
    /\ (Len(attempts) >= 5 /\ Candidates(5) = {}) =>
           /\ EndedInFailure
           /\ Len(attempts) = 5
           /\ result.messages[1] = [kind |-> "no_psu"]
    /\ (Len(attempts) = 6 /\ Candidates(6) = {}) =>
           /\ pc = "done"
           /\ result.status = "success"
           /\ result.build["case"] = NoPart
           /\ \A slot \in Slots \ {"case"} : result.build[slot] # NoPart
    /\ (Len(attempts) = 6 /\ Candidates(6) # {}) =>
           /\ result.status = "success"
           /\ result.build["case"] # NoPart

\* a Success without a case although the catalogue lists one
C5_Witness ==
    /\ pc = "done"
    /\ result.status = "success"
    /\ result.build["case"] = NoPart
    /\ data["case"] # <<>>

\* the normalized socket of the CPU picked, None when it exposes none
CpuSocket ==
    IF TruthyStr(GetStr(build["cpu"], "Physical - Socket", NoneStr))
    THEN checker_normalize_socket(build["cpu"]["Physical - Socket"])
    ELSE NoneStr

\* the motherboard's socket is the CPU's, after normalization of both
SocketMatches(mobo) ==
    /\ CpuSocket # NoneStr
    /\ TruthyStr(GetStr(mobo, "socket", NoneStr))
    /\ checker_normalize_socket(mobo["socket"]) = CpuSocket

\* the run failed at the motherboard, naming the CPU and its socket
NoMotherboardFailure ==
    /\ EndedInFailure
    /\ attempts = <<"cpu", "motherboard">>
    /\ result.messages[1] = [kind     |-> "no_mobo",
                             cpu_name |-> build["cpu"]["name"],
                             socket   |-> CpuSocket]

C8_SameInputsSameOutcome ==
    (pc = "done" /\ runs >= 2) => result = prev_result

\* a second call that returned the same Success as the first, whose GPU
\* was affordable thanks to the rollover
C8_Witness ==
    /\ pc = "done"
    /\ runs >= 2
    /\ result.status = "success"
    /\ result = prev_result
    /\ budget_rollover > 0

-----------------------------------------------------------------------------
(* Specification SpecPick: one call of _pick_part on a catalogue whose     *)
(* category lists at most MaxListed records, in every order                *)

MaxListed == 3

NAME_B550 == <<"B", "5", "5", "0">>

SOCK_AM5 == <<"A", "M", "5">>

\* a second AM4 motherboard at the price of MbAm4
MbTwin == Rec2("name", NAME_B550, "price", Num(100)) @@ ("socket" :> SOCK_AMD_AM4)

\* a DDR5 CPU at the price of CpuIntel
CpuAm5 ==
    Rec2("name", NAME_R7, "price", Num(350))
    @@ Rec2("Physical - Socket", SOCK_AM5, "Architecture - Memory Support", DDR5)

NAME_R3 == <<"R", "3">>

\* a DDR5 CPU cheaper than the DDR4 CPU CpuAm4
CpuAm5Cheap ==
    Rec2("name", NAME_R3, "price", Num(120))
    @@ Rec2("Physical - Socket", SOCK_AM5, "Architecture - Memory Support", DDR5)

PickPool(json_key) ==
    IF json_key = "cpu"
    THEN {CpuAm4, CpuIntel, CpuAm5, CpuAm5Cheap, CpuBare, CpuNoPrice}
    ELSE {MbAm4, MbTwin, Mb1700, MbNoSocket, MbZeroPrice}

\* the lists of at most MaxListed different records of the pool
PickLists(json_key) ==
    { list \in UNION { [1..n -> PickPool(json_key)] : n \in 0..MaxListed } :
          \A i, j \in 1..Len(list) : i # j => list[i] # list[j] }

PickBudgets == {100 * MoneyScale, 149 * MoneyScale, 350 * MoneyScale}

PickConstraints ==
    { [NoConstraints EXCEPT !.socket = sock] : sock \in {NoneStr, <<"a", "m", "4">>} }

NoParts ==
    [cpu |-> <<>>, motherboard |-> <<>>, memory |-> <<>>, case |-> <<>>]
    @@ Rec2("video-card", <<>>, "power-supply", <<>>)

InitPick ==
    /\ \E json_key \in {"cpu", "motherboard"} :
           /\ \E list \in PickLists(json_key) :
                  data = [NoParts EXCEPT ![json_key] = list]
           /\ \E budget \in PickBudgets, constraints \in PickConstraints :
                  pick_in = [json_key    |-> json_key,
                             budget      |-> budget,
                             constraints |-> constraints]
    /\ pick_out = NoPick
    /\ pick_done = FALSE
    /\ StartedUp
    /\ RunIdle
    /\ ManualIdle
    /\ NormIdle

\* AutoBuilder._pick_part (lines 110-147), called on its own
PickPart ==
    /\ ~pick_done
    /\ pick_out' = pick_part(data, pick_in.json_key, pick_in.budget,
                             pick_in.constraints)
    /\ pick_done' = TRUE
    /\ UNCHANGED <<data, pick_in>>
    /\ UNCHANGED manualVars
    /\ UNCHANGED runVars
    /\ UNCHANGED startVars
    /\ UNCHANGED normVars

NextPick == PickPart

SpecPick == InitPick /\ [][NextPick]_vars

\* the positions in the list searched of the records that pass the
\* constraint set with a nonzero price of at most the budget
Survivors ==
    { i \in 1..Len(data[pick_in.json_key]) :
          /\ passes_constraints(data[pick_in.json_key][i], pick_in.constraints)
          /\ InBudget(data[pick_in.json_key][i], pick_in.budget) }

\* C3: _pick_part returns no part if and only if no record of the category
\* passes the constraint set with a nonzero price of at most the budget;
\* otherwise, for a category other than CPU, it returns a survivor of
\* maximum price, the first in catalogue order of those at that price
C3_PickIsFirstMostExpensiveSurvivor ==
    pick_done =>
        LET list == data[pick_in.json_key]
        IN  /\ pick_out.exc = "none"
            /\ pick_out.part = NoPart <=> Survivors = {}
            /\ (pick_in.json_key # "cpu" /\ Survivors # {}) =>
                   \E i \in Survivors :
                       /\ pick_out.part = list[i]
                       /\ \A j \in Survivors :
                              /\ list[j]["price"].v <= list[i]["price"].v
                              /\ j < i => list[j]["price"].v < list[i]["price"].v

\* a motherboard pick among two survivors at the same highest price, with
\* at least one record of the list that did not survive
C3_Witness ==
    /\ pick_done
    /\ pick_in.json_key = "motherboard"
    /\ \E i, j \in Survivors :
           /\ i < j
           /\ data["motherboard"][i]["price"] = data["motherboard"][j]["price"]
           /\ pick_out.part = data["motherboard"][i]
    /\ Cardinality(Survivors) < Len(data["motherboard"])

\* the survivors of a CPU pick whose memory-support field mentions the type
SurvivorsMentioning(mem_type) ==
    { i \in Survivors :
          StrContains(mem_type, GetStr(data[pick_in.json_key][i],
                                       "Architecture - Memory Support", <<>>)) }

\* the pick is a record, of the highest price, among the given positions
PickedAmong(positions) ==
    \E i \in positions :
        /\ pick_out.part = data[pick_in.json_key][i]
        /\ \A j \in positions :
               data[pick_in.json_key][j]["price"].v <= data[pick_in.json_key][i]["price"].v

\* C22: if an in-budget CPU mentions 'DDR5' in its memory-support field,
\* the CPU chosen is the highest-priced of those, even when a more expensive
\* in-budget CPU without DDR5 exists; if none does, the choice is made among
\* the DDR4-capable in-budget CPUs only
C22_CpuPickPrefersDdr5ElseDdr4 ==
    (pick_done /\ pick_in.json_key = "cpu" /\ Survivors # {}) =>
        IF SurvivorsMentioning(DDR5) # {}
        THEN PickedAmong(SurvivorsMentioning(DDR5))
        ELSE PickedAmong(SurvivorsMentioning(DDR4))

\* what the code does instead: without an in-budget DDR5 CPU the choice is
\* made among all in-budget CPUs, whatever memory they support
CpuPickPrefersDdr5ElseAny ==
    (pick_done /\ pick_in.json_key = "cpu" /\ Survivors # {}) =>
        IF SurvivorsMentioning(DDR5) # {}
        THEN PickedAmong(SurvivorsMentioning(DDR5))
        ELSE PickedAmong(Survivors)

\* a DDR5 CPU has been chosen over a more expensive in-budget DDR4 CPU
CpuPickPassesOverDearerDdr4 ==
    /\ pick_done
    /\ pick_in.json_key = "cpu"
    /\ pick_out.part = CpuAm5Cheap
    /\ \E i \in Survivors : data["cpu"][i] = CpuAm4

-----------------------------------------------------------------------------
(* Specification SpecDirty: run_auto_build on catalogues in which one      *)
(* category lists a record whose price is not a number                     *)

NOT_AVAILABLE == <<"N", "/", "A">>

\* the record with its price replaced by a string that is no number
BadPrice(part) == [part EXCEPT !["price"] = Str(NOT_AVAILABLE)]

\* list with part put in at position i
InsertAt(list, i, part) ==
    SubSeq(list, 1, i - 1) \o <<part>> \o SubSeq(list, i, Len(list))

\* the catalogues that list the whole pool or only its first part in each
\* category
DirtyBases ==
    { [cpu |-> c, motherboard |-> m, memory |-> r, case |-> CasePool]
      @@ Rec2("video-card", g, "power-supply", p) :
          c \in {CpuPool, <<CpuPool[1]>>}, m \in {MoboPool, <<MoboPool[1]>>},
          r \in {RamPool, <<RamPool[1]>>}, g \in {GpuPool, <<GpuPool[1]>>},
          p \in {PsuPool, <<PsuPool[1]>>} }

InitDirty ==
    /\ \E base \in DirtyBases, key \in DOMAIN NoParts :
           \E i \in 1..(Len(base[key]) + 1) :
               data = [base EXCEPT ![key] = InsertAt(base[key], i, BadPrice(base[key][1]))]
    /\ StartedUp
    /\ RunIdle
    /\ OtherIdle

SpecDirty == InitDirty /\ [][Next]_vars

\* the price is a string that float() does not parse
UnparseablePrice(part) ==
    /\ "price" \in DOMAIN part
    /\ part["price"].t = "str"
    /\ ~PyNumber(part["price"]).ok

\* the catalogue without the records whose price is unparseable
WithoutUnparseablePrices(db) ==
    [key \in DOMAIN db |->
        LET Parseable(part) == ~UnparseablePrice(part)
        IN  SelectSeq(db[key], Parseable)]

\* C7 as stated: a record whose price is unparseable is never picked, and
\* its presence never keeps run_auto_build from ending in the Success or
\* Failure, with the picks, that it reaches without that record
C7_MalformedPriceDoesNotStopAllocation ==
    /\ \A slot \in Slots :
           build[slot] # NoPart => ~UnparseablePrice(build[slot])
    /\ pc = "done" =>
           /\ result.status \in {"success", "failure"}
           /\ result = run_auto_build(WithoutUnparseablePrices(data),
                                      total_budget, purpose, pick_default)

\* what does hold: a finished run either raised the TypeError of the price
\* comparison or returned what it returns without the record
MalformedPriceRaisesOrIsIgnored ==
    pc = "done" =>
        \/ result = Raised("TypeError")
        \/ result = run_auto_build(WithoutUnparseablePrices(data),
                                   total_budget, purpose, pick_default)

-----------------------------------------------------------------------------
(* Specification SpecEngine: start-up (construction, then the two          *)
(* enrichment calls) followed by any calls of search_parts,                *)
(* passes_constraints, _get_constraints, check_build and run_auto_build    *)

NAME_AMD_R5 == <<"A", "M", "D", " ", "R", "5">>

NAME_INTEL_I5 == <<"I", "n", "t", "e", "l", " ", "i", "5">>

NAME_GEFORCE_RTX == <<"G", "e", "F", "o", "r", "c", "e", " ", "R", "T", "X">>

NAME_RADEON_RX == <<"R", "a", "d", "e", "o", "n", " ", "R", "X">>

\* the fields of the part that the listing files carry
Listing(part) == [k \in DOMAIN part \cap {"name", "price", "chipset"} |-> part[k]]

\* the reference record that enrichment copies the other fields from
Master(name, part) ==
    ("Name" :> name)
    @@ [k \in DOMAIN part \ {"name", "price", "chipset"} |-> part[k]]

MasterCpus == <<Master(NAME_AMD_R5, CpuAm4), Master(NAME_INTEL_I5, CpuIntel)>>

MasterGpus == <<Master(NAME_GEFORCE_RTX, GpuBig), Master(NAME_RADEON_RX, GpuSmall)>>

\* the catalogues as loaded from the JSON folder
RawCatalogues ==
    { [cpu |-> c, motherboard |-> MoboPool, memory |-> RamPool, case |-> CasePool,
       master_cpu_database |-> MasterCpus, master_gpu_database |-> mg]
      @@ Rec2("video-card", g, "power-supply", PsuPool) :
          c \in { <<Listing(CpuAm4), Listing(CpuBare), Listing(CpuIntel)>>,
                  <<Listing(CpuIntel)>> },
          g \in { <<Listing(GpuSmall), Listing(GpuBig)>>, <<Listing(GpuBig)>> },
          mg \in { MasterGpus, <<>> } }

InitEngine ==
    /\ data \in RawCatalogues
    /\ frontend \in {"cli", "web"}
    /\ master_spec_maps = build_master_spec_maps(data)
    /\ phase = "constructed"
    /\ call_out = NoCall
    /\ call_in = NoCallIn
    /\ part_list = EmptyParts
    /\ shown_total = 0
    /\ session_build = [parts |-> EmptyParts, total_price |-> 0]
    /\ err = "none"
    /\ RunIdle
    /\ pick_in = NoPickIn
    /\ pick_out = NoPick
    /\ pick_done = FALSE
    /\ NormIdle

\* what no engine operation outside run_auto_build touches
EngineFrame ==
    /\ UNCHANGED frontend
    /\ UNCHANGED <<part_list, shown_total, session_build, err>>
    /\ UNCHANGED runVars
    /\ UNCHANGED pickVars
    /\ UNCHANGED normVars

\* db.enrich_product_database("cpu", "master_cpu_database", "name", [...])
EnrichCpu ==
    /\ phase = "constructed"
    /\ data' = enrich_product_database(data, master_spec_maps, "cpu",
                                       "master_cpu_database", "name", CPU_SPECS)
    /\ phase' = "cpu_enriched"
    /\ UNCHANGED <<master_spec_maps, call_out, call_in>>
    /\ EngineFrame

\* db.enrich_product_database("video-card", "master_gpu_database", "name", [...])
EnrichGpu ==
    /\ phase = "cpu_enriched"
    /\ data' = enrich_product_database(data, master_spec_maps, "video-card",
                                       "master_gpu_database", "name",
                                       GPU_SPECS(frontend))
    /\ phase' = "ready"
    /\ UNCHANGED <<master_spec_maps, call_out, call_in>>
    /\ EngineFrame

\* the constraint sets the operations are called with
EngineConstraints ==
    { NoConstraints,
      [NoConstraints EXCEPT !.socket = AM4],
      [NoConstraints EXCEPT !.memory_type = DDR5],
      [NoConstraints EXCEPT !.estimated_power = Num(455)] }

\* the builds the operations are called with: for each slot no part or the
\* first listing of its category
EngineBuilds ==
    { [cpu         |-> IF "cpu" \in filled /\ data["cpu"] # <<>>
                       THEN data["cpu"][1] ELSE NoPart,
       motherboard |-> IF "motherboard" \in filled
                       THEN data["motherboard"][1] ELSE NoPart,
       ram         |-> IF "ram" \in filled THEN data["memory"][1] ELSE NoPart,
       gpu         |-> IF "gpu" \in filled /\ data["video-card"] # <<>>
                       THEN data["video-card"][1] ELSE NoPart,
       psu         |-> IF "psu" \in filled THEN data["power-supply"][2] ELSE NoPart,
       case        |-> NoPart] :
          filled \in SUBSET {"cpu", "motherboard", "ram", "gpu", "psu"} }

\* a search that keeps only its results in the catalogue
SearchPartsInPlace(part_type, keyword, constraints) ==
    /\ phase = "ready"
    /\ pc \in {"idle", "done"}
    /\ call_out' = [search_parts |-> search_parts(data, part_type, keyword, constraints)]
    /\ data' = IF part_type \in DOMAIN data
               THEN [data EXCEPT ![part_type] =
                        search_parts(data, part_type, keyword, constraints)]
               ELSE data
    /\ UNCHANGED <<master_spec_maps, phase, call_in>>
    /\ EngineFrame

\* PartDatabase.search_parts (lines 253-286)
SearchParts(part_type, keyword, constraints) ==
    /\ phase = "ready"
    /\ pc \in {"idle", "done"}
    /\ call_out' = [search_parts |-> search_parts(data, part_type, keyword, constraints)]
    /\ UNCHANGED <<data, master_spec_maps, phase, call_in>>
    /\ EngineFrame

\* PartDatabase.passes_constraints (lines 177-251)
PassesConstraints(part, constraints) ==
    /\ phase = "ready"
    /\ pc \in {"idle", "done"}
    /\ call_out' = [passes_constraints |-> passes_constraints(part, constraints)]
    /\ UNCHANGED <<data, master_spec_maps, phase, call_in>>
    /\ EngineFrame

\* AutoBuilder._get_constraints (lines 57-108)
GetConstraints(parts) ==
    /\ phase = "ready"
    /\ pc \in {"idle", "done"}
    /\ call_out' = [get_constraints |-> get_constraints(parts)]
    /\ UNCHANGED <<data, master_spec_maps, phase, call_in>>
    /\ EngineFrame

\* CompatibilityChecker.check_build (lines 46-137)
CheckBuild(parts) ==
    /\ phase = "ready"
    /\ pc \in {"idle", "done"}
    /\ call_out' = [check_build |-> check_build(parts)]
    /\ UNCHANGED <<data, master_spec_maps, phase, call_in>>
    /\ EngineFrame

NextEngine ==
    \/ EnrichCpu
    \/ EnrichGpu
    \/ \E part_type \in {"cpu", "video-card", "cooler"},
          keyword \in {<<>>, <<"R">>},
          constraints \in EngineConstraints :
           SearchParts(part_type, keyword, constraints)
    \/ \E part_type \in {"cpu", "motherboard", "memory", "power-supply"},
          constraints \in EngineConstraints :
           \E i \in 1..Len(data[part_type]) :
               PassesConstraints(data[part_type][i], constraints)
    \/ \E parts \in EngineBuilds : GetConstraints(parts)
    \/ \E parts \in EngineBuilds : CheckBuild(parts)
    \/ Call
    \/ PickCpu
    \/ PickMotherboard
    \/ PickRam
    \/ PickGpu
    \/ PickPsu
    \/ PickCase

SpecEngine == InitEngine /\ [][NextEngine]_vars

\* enrichment turns the listings of a matched part into the record the
\* other specifications start from
EnrichmentYieldsPoolRecords ==
    (phase = "ready" /\ Len(data["cpu"]) = 3) =>
        data["cpu"] = <<CpuAm4, CpuBare, CpuIntel>>

\* C9: once enrichment has finished, no call of search_parts,
\* passes_constraints, _get_constraints, check_build or run_auto_build
\* changes the catalogue or the master-spec index
C9_CatalogueIsReadOnly ==
    [][phase = "ready" =>
           /\ data' = data
           /\ master_spec_maps' = master_spec_maps]_vars

\* after start-up with an index of both kinds, a run has ended in Success
\* and a search has returned the two records that pass an AM4 constraint
C9_Witness ==
    /\ phase = "ready"
    /\ DOMAIN master_spec_maps = {"cpu", "gpu"}
    /\ pc = "done"
    /\ result.status = "success"
    /\ call_out = [search_parts |-> <<CpuAm4, CpuBare>>]

-----------------------------------------------------------------------------
(* Specification SpecManual: the manual builder of the CLI (PartList) and  *)
(* of the web application (session build) over a catalogue whose listings  *)
(* carry every kind of price                                               *)

ManualCatalogue ==
    [cpu |-> <<CpuAm4, CpuNoPrice>>, motherboard |-> <<MbAm4, MbZeroPrice>>,
     memory |-> <<RamDdr5, RamStringPrice>>, case |-> <<CaseA, CaseBadPrice>>]
    @@ Rec2("video-card", <<GpuBig, GpuNullPrice>>,
            "power-supply", <<Psu650, PsuEmptyPrice>>)

RECURSIVE SeqRange(_)
SeqRange(seq) == IF seq = <<>> THEN {} ELSE {Head(seq)} \cup SeqRange(Tail(seq))

AllParts(db) == UNION { SeqRange(db[k]) : k \in DOMAIN db }

\* the listings offered for a part type; a part type that has no catalogue
\* can still be named in a call, with any listing
Listings(db, part_type) ==
    IF JsonKey(part_type) \in DOMAIN db
    THEN SeqRange(db[JsonKey(part_type)])
    ELSE AllParts(db)

PartTypes == Slots \cup {"cooler"}

InitManual ==
    /\ data = ManualCatalogue
    /\ frontend \in {"cli", "web"}
    /\ part_list = EmptyParts
    /\ shown_total = 0
    /\ session_build = [parts |-> EmptyParts, total_price |-> 0]
    /\ err = "none"
    /\ StartedUp
    /\ RunIdle
    /\ pick_in = NoPickIn
    /\ pick_out = NoPick
    /\ pick_done = FALSE
    /\ norm_in = <<>>
    /\ norm_out = NoNormOut
    /\ norm_done = FALSE

\* PartList.add_part followed by PartList.display (main.py, manual loop)
AddPart(part_type, part_data) ==
    /\ frontend = "cli"
    /\ part_list' = add_part(part_list, part_type, part_data)
    /\ shown_total' = get_total_price(part_list')
    /\ err' = "none"
    /\ UNCHANGED <<data, frontend, session_build>>
    /\ UNCHANGED runVars
    /\ UNCHANGED startVars
    /\ UNCHANGED pickVars
    /\ UNCHANGED normVars

\* select_part (app.py): the POST handler.  The build is changed in place
\* and stored back into the session only on line 285, after the total has
\* been recomputed; an exception before that leaves the session as it was
SelectPart(part_type, part_name) ==
    /\ frontend = "web"
    /\ LET json_key == JsonKey(part_type)
           all_parts == search_parts(data, json_key, part_name, NoConstraints)
           found == all_parts # <<>> /\ all_parts[1]["name"] = part_name
           parts == [session_build.parts EXCEPT ![part_type] = all_parts[1]]
       IN  IF ~found
           THEN /\ err' = "none"
                /\ UNCHANGED session_build
           ELSE IF SelectPartRaises(parts)
           THEN /\ err' = "ValueError"
                /\ UNCHANGED session_build
           ELSE /\ err' = "none"
                /\ session_build' =
                       [parts |-> parts, total_price |-> SelectPartTotal(parts)]
    /\ UNCHANGED <<data, frontend, part_list, shown_total>>
    /\ UNCHANGED runVars
    /\ UNCHANGED startVars
    /\ UNCHANGED pickVars
    /\ UNCHANGED normVars

NextManual ==
    \/ \E part_type \in PartTypes :
           \E part_data \in Listings(data, part_type) :
               AddPart(part_type, part_data)
    \/ \E part_type \in PartTypes :
           \E part \in Listings(data, part_type) :
               SelectPart(part_type, part["name"])

SpecManual == InitManual /\ [][NextManual]_vars

\* the sum of the numeric prices of the parts held in the six slots
NumericPrice(part) ==
    IF part = NoPart \/ "price" \notin DOMAIN part THEN 0
    ELSE IF PyNumber(part["price"]).ok THEN PyNumber(part["price"]).v
    ELSE 0

NumericPriceSum(parts) ==
    LET held == {slot \in Slots : parts[slot] # NoPart}
        Sum[S \in SUBSET held] ==
            IF S = {} THEN 0
            ELSE LET slot == CHOOSE x \in S : TRUE
                 IN  NumericPrice(parts[slot]) + Sum[S \ {slot}]
    IN  Sum[held]

\* C1: after any sequence of add_part calls the total price of the build
\* equals the sum of the numeric prices of the parts held in the six slots,
\* and no price (missing, zero, unparseable) makes the computation fail
C1_TotalIsSumOfNumericPrices ==
    /\ err = "none"
    /\ shown_total = NumericPriceSum(part_list)
    /\ session_build.total_price = NumericPriceSum(session_build.parts)

\* the PartList half of C1, which the code satisfies
PartListTotalIsSum ==
    frontend = "cli" => err = "none" /\ shown_total = NumericPriceSum(part_list)

-----------------------------------------------------------------------------
(* Specification SpecNorm: one call of _normalize_socket on a string built *)
(* from socket vocabulary                                                  *)

MaxFragments == 3

SocketFragments ==
    { <<"A", "M", "4">>, <<"a", "m", "5">>, <<"L", "G", "A">>,
      <<"S", "o", "c", "k", "e", "t">>, <<"i", "n", "t", "e", "l">>,
      <<"A", "M", "D">>, <<" ">>, <<"1", "7", "0", "0">>,
      <<"7", "7", "5">>, <<"-">>, <<"5">> }

RECURSIVE Concat(_)
Concat(ss) == IF ss = <<>> THEN <<>> ELSE Head(ss) \o Concat(Tail(ss))

SocketStrings ==
    { Concat(fs) : fs \in UNION { [1..n -> SocketFragments] : n \in 1..MaxFragments } }

InitNorm ==
    /\ data = ManualCatalogue
    /\ frontend = "cli"
    /\ part_list = EmptyParts
    /\ shown_total = 0
    /\ session_build = [parts |-> EmptyParts, total_price |-> 0]
    /\ err = "none"
    /\ StartedUp
    /\ RunIdle
    /\ pick_in = NoPickIn
    /\ pick_out = NoPick
    /\ pick_done = FALSE
    /\ norm_in \in SocketStrings
    /\ norm_out = NoNormOut
    /\ norm_done = FALSE

Normalize ==
    /\ ~norm_done
    /\ norm_out' = [checker     |-> checker_normalize_socket(norm_in),
                    autobuilder |-> autobuilder_normalize_socket(norm_in),
                    database    |-> PartDatabase_normalize_socket(norm_in)]
    /\ norm_done' = TRUE
    /\ UNCHANGED norm_in
    /\ UNCHANGED <<data>>
    /\ UNCHANGED manualVars
    /\ UNCHANGED runVars
    /\ UNCHANGED startVars
    /\ UNCHANGED pickVars

NextNorm == Normalize

SpecNorm == InitNorm /\ [][NextNorm]_vars

\* the rules in strict order, each falling through to the next when its
\* pattern is not found: am4, am5, lga<digits>, the first 4-digit run of a
\* string with 'intel' or 'socket', else the string without 'amd', 'intel',
\* 'socket'
NormalizeFallThrough(socket_str) ==
    IF socket_str = NoneStr \/ socket_str = <<>> THEN NoneStr
    ELSE LET s == StrLower(RemoveWhitespace(socket_str))
         IN  IF StrContains(AM4, s) THEN AM4
             ELSE IF StrContains(AM5, s) THEN AM5
             ELSE IF HasLgaDigits(s) THEN LgaDigits(s)
             ELSE IF (StrContains(INTEL, s) \/ StrContains(SOCKET, s))
                     /\ HasFourDigits(s)
                  THEN FirstFourDigits(s)
             ELSE StrRemoveAll(StrRemoveAll(StrRemoveAll(s, AMD), INTEL), SOCKET)

\* C10: socket normalization strips whitespace, lower-cases and applies its
\* rules in strict order: am4/am5 first, then the digit group of
\* lga<digits>, then the first 4-digit run of a string containing 'intel'
\* or 'socket', otherwise the string with 'amd', 'intel', 'socket' removed
C10_NormalizeAppliesRulesInOrder ==
    norm_done =>
        /\ norm_out.checker = NormalizeFallThrough(norm_in)
        /\ norm_out.database = NormalizeFallThrough(norm_in)
        /\ norm_out.autobuilder = NormalizeFallThrough(norm_in)

\* the three examples of C10: LGA1700 -> 1700, Socket AM4 -> am4, AM5 -> am5
NormalizeExamples ==
    /\ normalize_socket(<<"L", "G", "A", "1", "7", "0", "0">>)
           = <<"1", "7", "0", "0">>
    /\ normalize_socket(<<"S", "o", "c", "k", "e", "t", " ", "A", "M", "4">>) = AM4
    /\ normalize_socket(<<"A", "M", "5">>) = AM5

-----------------------------------------------------------------------------
(* Web application: get_build_constraints (app.py, lines 34-86)            *)

\* value or 0
OrZero(v) == IF Truthy(v) THEN v ELSE Num(0)

\* 3. power constraint of the web application: ValueError and TypeError of
\* the int() conversions are swallowed and leave the key out
WebPowerConstraint(parts) ==
    LET cpu == parts["cpu"]
        gpu == parts["gpu"]
        cpu_power ==
            IF cpu # NoPart
            THEN PyNumber(OrZero(Get(cpu, "Performance - TDP")))
            ELSE PyNumber(Num(0))
        gpu_power ==
            IF gpu # NoPart
            THEN PyNumber(OrZero(Get(gpu, "Board Design - TDP")))
            ELSE PyNumber(Num(0))
    IN  IF cpu_power.ok /\ gpu_power.ok /\ (cpu_power.v > 0 \/ gpu_power.v > 0)
        THEN Num(cpu_power.v + gpu_power.v + 100)
        ELSE None

\* get_build_constraints: socket and memory type as AutoBuilder derives them
get_build_constraints(parts) ==
    [socket          |-> SocketConstraint(parts),
     memory_type     |-> MemoryTypeConstraint(parts),
     estimated_power |-> WebPowerConstraint(parts)]

-----------------------------------------------------------------------------
(* Specification SpecDerive: the two constraint derivations, each called   *)
(* once on a build whose CPU, motherboard and GPU slots are empty or hold  *)
(* a record with or without the fields the derivation reads                *)

SOCK_AMD == <<"A", "M", "D">>

MEM_LPDDR3_DDR3 == <<"L", "P", "D", "D", "R", "3", ",", " ", "D", "D", "R", "3">>

TDP_65 == <<"6", "5">>

TDP_65_W == <<"6", "5", " ", "W">>

\* the records of parts, and the same with the field key set to a value
Optional(parts, key, values) ==
    parts \cup { (key :> v) @@ part : part \in parts, v \in values }

DeriveSockets == {SOCK_AMD_AM4, SOCK_INTEL_1700, SOCK_AMD, <<>>}

DeriveMemories == {DDR4, MEM_DDR4_DDR5, DDR5, MEM_LPDDR3_DDR3, <<>>}

DeriveTdps == {None, Num(0), Num(65), Str(TDP_65), Str(TDP_65_W)}

DeriveCpus ==
    Optional(Optional(Optional({("name" :> NAME_R5)},
                               "Physical - Socket", DeriveSockets),
                      "Architecture - Memory Support", DeriveMemories),
             "Performance - TDP", DeriveTdps)

DeriveMobos ==
    Optional({("name" :> NAME_B450)}, "socket", {SOCK_AM4, SOCK_LGA_1700, <<>>})

DeriveGpus ==
    Optional({("name" :> NAME_GPU_BIG)}, "Board Design - TDP",
             {None, Num(200), Str(NOT_AVAILABLE)})

DeriveBuilds ==
    { [EmptyParts EXCEPT !["cpu"] = cpu, !["motherboard"] = mobo, !["gpu"] = gpu] :
          cpu \in DeriveCpus \cup {NoPart},
          mobo \in DeriveMobos \cup {NoPart},
          gpu \in DeriveGpus \cup {NoPart} }

InitDerive ==
    /\ call_in \in { [build |-> parts] : parts \in DeriveBuilds }
    /\ call_out = NoCall
    /\ data = NoParts
    /\ master_spec_maps = <<>>
    /\ phase = "ready"
    /\ RunIdle
    /\ OtherIdle

\* the variables a call of an engine operation on its own leaves alone
CallFrame ==
    /\ UNCHANGED <<data, master_spec_maps, phase, call_in>>
    /\ UNCHANGED manualVars
    /\ UNCHANGED runVars
    /\ UNCHANGED pickVars
    /\ UNCHANGED normVars

\* AutoBuilder._get_constraints(build)
GetConstraintsCall ==
    /\ call_out = NoCall
    /\ call_out' = [get_constraints |-> get_constraints(call_in.build)]
    /\ CallFrame

\* get_build_constraints(session['build'])
GetBuildConstraintsCall ==
    /\ call_out = NoCall
    /\ call_out' = [get_build_constraints |-> get_build_constraints(call_in.build)]
    /\ CallFrame

NextDerive ==
    \/ GetConstraintsCall
    \/ GetBuildConstraintsCall

SpecDerive == InitDerive /\ [][NextDerive]_vars

\* a derivation has returned, and the ConstraintSet it returned
Derived == call_out # NoCall

DerivedConstraints ==
    IF "get_constraints" \in DOMAIN call_out
    THEN call_out.get_constraints
    ELSE call_out.get_build_constraints

\* the normalized form of a socket field, absent (None) when the record
\* does not carry the field or carries the empty string
NormalizedField(part, key) ==
    IF key \in DOMAIN part THEN checker_normalize_socket(part[key]) ELSE NoneStr

\* C12: the socket key is the normalized socket field of the selected CPU;
\* with no CPU selected it is the normalized socket field of the selected
\* motherboard; with neither selected it is absent; the ConstraintSet of
\* the empty build is empty
C12_SocketKeyFromCpuElseMotherboard ==
    Derived =>
        /\ call_in.build["cpu"] # NoPart =>
               DerivedConstraints.socket =
                   NormalizedField(call_in.build["cpu"], "Physical - Socket")
        /\ (call_in.build["cpu"] = NoPart /\ call_in.build["motherboard"] # NoPart) =>
               DerivedConstraints.socket =
                   NormalizedField(call_in.build["motherboard"], "socket")
        /\ (call_in.build["cpu"] = NoPart /\ call_in.build["motherboard"] = NoPart) =>
               DerivedConstraints.socket = NoneStr
        /\ call_in.build = EmptyParts => DerivedConstraints = NoConstraints

\* a build without CPU whose motherboard is an LGA 1700 one
C12_Witness ==
    /\ Derived
    /\ call_in.build["cpu"] = NoPart
    /\ call_in.build["motherboard"] # NoPart
    /\ "socket" \in DOMAIN call_in.build["motherboard"]
    /\ call_in.build["motherboard"]["socket"] = SOCK_LGA_1700
    /\ DerivedConstraints.socket = <<"1", "7", "0", "0">>

\* C13: with a CPU carrying a memory-support field, memory_type is DDR5 if
\* the field contains DDR5, else DDR4 if it contains DDR4, else the first
\* comma-separated token; with no CPU, or a CPU without the field (or with
\* an empty one), it is absent
C13_MemoryTypePrefersDdr5 ==
    Derived =>
        LET cpu == call_in.build["cpu"]
            supplied == /\ cpu # NoPart
                        /\ "Architecture - Memory Support" \in DOMAIN cpu
                        /\ cpu["Architecture - Memory Support"] # <<>>
        IN  /\ ~supplied => DerivedConstraints.memory_type = NoneStr
            /\ supplied =>
                   LET field == cpu["Architecture - Memory Support"]
                       has5 == \E i \in 1..(Len(field) - 3) :
                                   SubSeq(field, i, i + 3) = DDR5
                       has4 == \E i \in 1..(Len(field) - 3) :
                                   SubSeq(field, i, i + 3) = DDR4
                   IN  DerivedConstraints.memory_type =
                           IF has5 THEN DDR5
                           ELSE IF has4 THEN DDR4
                           ELSE FirstCommaToken(field)

\* a CPU that lists DDR4 and DDR5
C13_Witness ==
    /\ Derived
    /\ call_in.build["cpu"] # NoPart
    /\ "Architecture - Memory Support" \in DOMAIN call_in.build["cpu"]
    /\ call_in.build["cpu"]["Architecture - Memory Support"] = MEM_DDR4_DDR5
    /\ DerivedConstraints.memory_type = DDR5

\* the TDP a field stands for: 0 when it is missing, null or not a number
TdpOrZero(part, key) ==
    IF part = NoPart THEN 0
    ELSE The({ IF n.ok THEN n.v ELSE 0 : n \in {PyNumber(Get(part, key))} })

\* C14: estimated_power is present if and only if the CPU or the GPU has a
\* positive TDP, and is then cpu_tdp + gpu_tdp + 100, a missing, null or
\* unparseable TDP counting as 0
C14_EstimatedPowerCountsBadTdpAsZero ==
    Derived =>
        LET cpu_tdp == TdpOrZero(call_in.build["cpu"], "Performance - TDP")
            gpu_tdp == TdpOrZero(call_in.build["gpu"], "Board Design - TDP")
        IN  DerivedConstraints.estimated_power =
                IF cpu_tdp > 0 \/ gpu_tdp > 0
                THEN Num(cpu_tdp + gpu_tdp + 100)
                ELSE None

\* the part of C14 the code keeps: when both TDPs are missing or numbers,
\* estimated_power is their sum plus 100 if one is positive, else absent;
\* when one is null or unparseable the key is absent or (web application,
\* null only) the null counts as 0
PowerKeyWhenTdpsAreNumbers ==
    Derived =>
        LET cpu == call_in.build["cpu"]
            gpu == call_in.build["gpu"]
            Clean(part, key) ==
                part = NoPart \/ key \notin DOMAIN part \/ PyNumber(part[key]).ok
            cpu_tdp == TdpOrZero(cpu, "Performance - TDP")
            gpu_tdp == TdpOrZero(gpu, "Board Design - TDP")
        IN  /\ (Clean(cpu, "Performance - TDP") /\ Clean(gpu, "Board Design - TDP")) =>
                   DerivedConstraints.estimated_power =
                       IF cpu_tdp > 0 \/ gpu_tdp > 0
                       THEN Num(cpu_tdp + gpu_tdp + 100)
                       ELSE None
            /\ DerivedConstraints.estimated_power \in
                   {None, Num(cpu_tdp + gpu_tdp + 100)}

-----------------------------------------------------------------------------
(* Specification SpecFilter: search_parts called once, under the           *)
(* ConstraintSet derived from a build, on a catalogue that lists at most   *)
(* MaxFiltered records in the category searched                            *)

MaxFiltered == 2

KW_B4 == <<"B", "4">>

KW_RTX_LOWER == <<"r", "t", "x">>

WATT_650 == <<"6", "5", "0">>

\* the CPUs of the builds: with or without socket and TDP
FilterCpus ==
    Optional(Optional({("name" :> NAME_R5)},
                      "Physical - Socket", {SOCK_AMD_AM4, SOCK_INTEL_1700, SOCK_AMD}),
             "Performance - TDP", {Num(105), Num(150)})

FilterGpus == { ("name" :> NAME_GPU_BIG) @@ ("Board Design - TDP" :> Num(250)) }

FilterBuilds ==
    { [EmptyParts EXCEPT !["cpu"] = cpu, !["gpu"] = gpu] :
          cpu \in FilterCpus \cup {NoPart}, gpu \in FilterGpus \cup {NoPart} }

\* the records a category may list
FilterPool(part_type) ==
    CASE part_type = "motherboard" ->
             Optional({("name" :> NAME_B450)}, "socket",
                      {SOCK_AM4, SOCK_LGA_1700, SOCK_AMD, SOCK_AMD_AM4, <<>>})
      [] part_type = "power-supply" ->
             Optional({("name" :> NAME_PSU650)}, "wattage",
                      {Num(450), Num(500), Num(650), Num(750), Str(WATT_650),
                       Str(NOT_AVAILABLE), None})
      [] part_type = "video-card" ->
             { ("name" :> NAME_GPU_BIG) @@ ("chipset" :> NAME_RTX),
               ("name" :> NAME_GPU_SMALL) @@ ("chipset" :> NAME_RX),
               ("name" :> NAME_RTX),
               ("chipset" :> NAME_RTX),
               ("name" :> NAME_B450) @@ ("chipset" :> NAME_RX) }
      [] OTHER -> {}

FilterLists(part_type) ==
    { list \in UNION { [1..n -> FilterPool(part_type)] : n \in 0..MaxFiltered } :
          \A i, j \in 1..Len(list) : i # j => list[i] # list[j] }

FilterKeywords == {<<>>, KW_B4, KW_RTX_LOWER}

InitFilter ==
    /\ \E part_type \in {"motherboard", "power-supply", "video-card", "cooler"} :
           /\ \E list \in FilterLists(part_type) :
                  data = IF part_type \in DOMAIN NoParts
                         THEN [NoParts EXCEPT ![part_type] = list]
                         ELSE NoParts
           /\ \E parts \in FilterBuilds, keyword \in FilterKeywords :
                  call_in = [build     |-> parts,
                             part_type |-> part_type,
                             keyword   |-> keyword]
    /\ call_out = NoCall
    /\ master_spec_maps = <<>>
    /\ phase = "ready"
    /\ RunIdle
    /\ OtherIdle

\* constraints = _get_constraints(build);
\* db.search_parts(part_type, keyword, constraints)
SearchCall ==
    /\ call_out = NoCall
    /\ call_out' =
           [search_parts |->
                search_parts(data, call_in.part_type, call_in.keyword,
                             get_constraints(call_in.build))]
    /\ CallFrame

NextFilter == SearchCall

SpecFilter == InitFilter /\ [][NextFilter]_vars

\* the search has returned
Searched == call_out # NoCall

\* the list searched; the empty list for a category the catalogue lacks
Searchable ==
    IF call_in.part_type \in DOMAIN data THEN data[call_in.part_type] ELSE <<>>

\* the record is among the results
Kept(part) ==
    \E j \in 1..Len(call_out.search_parts) : call_out.search_parts[j] = part

\* the record exposes a non-empty socket string
ExposesSocket(part) ==
    "socket" \in DOMAIN part /\ part["socket"] # <<>>

\* C11: under the ConstraintSet of a build whose CPU has the non-empty
\* socket string c, a record exposing the non-empty socket string r is kept
\* if and only if normalize(r) = normalize(c); a record exposing no socket
\* is kept
C11_SocketFilterIsEqualityOfNormalizedForms ==
    ( /\ Searched
      /\ call_in.part_type = "motherboard"
      /\ call_in.keyword = <<>>
      /\ call_in.build["cpu"] # NoPart
      /\ "Physical - Socket" \in DOMAIN call_in.build["cpu"] ) =>
        \A c \in {checker_normalize_socket(call_in.build["cpu"]["Physical - Socket"])} :
            \A i \in 1..Len(Searchable) :
                IF ExposesSocket(Searchable[i])
                THEN Kept(Searchable[i]) <=>
                         checker_normalize_socket(Searchable[i]["socket"]) = c
                ELSE Kept(Searchable[i])

\* what the filter computes instead: the record's normalized socket is
\* compared with the normalized form of the already normalized constraint,
\* which is None when the constraint is the empty string
SocketFilterNormalizesTheConstraintTwice ==
    ( /\ Searched
      /\ call_in.part_type = "motherboard"
      /\ call_in.keyword = <<>>
      /\ call_in.build["cpu"] # NoPart
      /\ "Physical - Socket" \in DOMAIN call_in.build["cpu"] ) =>
        \A c \in {checker_normalize_socket(
                      checker_normalize_socket(
                          call_in.build["cpu"]["Physical - Socket"]))} :
            \A i \in 1..Len(Searchable) :
                IF ExposesSocket(Searchable[i])
                THEN Kept(Searchable[i]) <=>
                         checker_normalize_socket(Searchable[i]["socket"]) = c
                ELSE Kept(Searchable[i])

\* the keyword occurs in the text, letter case aside
OccursIgnoringCase(keyword, text) ==
    \E offset \in 0..(Len(text) - Len(keyword)) :
        \A k \in 1..Len(keyword) :
            LowerChar(text[offset + k]) = LowerChar(keyword[k])

\* the positions of the records that pass the constraints and carry the
\* keyword in the name or, for a GPU, in the name or the chipset
Hits ==
    { i \in 1..Len(Searchable) :
          /\ passes_constraints(Searchable[i], get_constraints(call_in.build))
          /\ \/ OccursIgnoringCase(call_in.keyword,
                                   GetStr(Searchable[i], "name", <<>>))
             \/ /\ call_in.part_type = "video-card"
                /\ OccursIgnoringCase(call_in.keyword,
                                      GetStr(Searchable[i], "chipset", <<>>)) }

\* C15: search returns exactly the records of the category that pass the
\* constraints and carry the keyword, letter case aside, in the name (for a
\* GPU: name or chipset), each once and in catalogue order; every passing
\* record for the empty keyword; nothing for an unknown category
C15_SearchKeepsPassingKeywordMatchesInOrder ==
    Searched =>
        /\ call_out.search_parts = SubListFrom(Searchable, Hits, 1)
        /\ call_in.keyword = <<>> =>
               \A i \in 1..Len(Searchable) :
                   passes_constraints(Searchable[i], get_constraints(call_in.build))
                       => Kept(Searchable[i])
        /\ call_in.part_type \notin DOMAIN data => call_out.search_parts = <<>>

\* a GPU search that drops the first of two records and keeps the second
\* for its chipset alone
C15_Witness ==
    /\ Searched
    /\ call_in.part_type = "video-card"
    /\ call_in.keyword = KW_RTX_LOWER
    /\ Len(Searchable) = 2
    /\ call_out.search_parts = <<Searchable[2]>>
    /\ "name" \notin DOMAIN Searchable[2]

\* C16: under a ConstraintSet with estimated_power P a record with a
\* wattage field w is kept if and only if w is a number and w * 0.7 >= P;
\* a record without wattage field is kept
C16_PowerFilterKeepsSeventyPercentHeadroom ==
    ( /\ Searched
      /\ call_in.part_type = "power-supply"
      /\ call_in.keyword = <<>> ) =>
        \A estimated_power \in {PowerConstraint(call_in.build)} :
            estimated_power # None =>
                \A i \in 1..Len(Searchable) :
                    IF "wattage" \in DOMAIN Searchable[i]
                    THEN Kept(Searchable[i]) <=>
                             \E w \in {PyNumber(Searchable[i]["wattage"])} :
                                 w.ok /\ 7 * w.v >= 10 * estimated_power.v
                    ELSE Kept(Searchable[i])

\* what the filter computes: the same, except on the boundary
\* w * 0.7 = P, where the float product may fall short of P
PowerFilterAgreesOffTheBoundary ==
    ( /\ Searched
      /\ call_in.part_type = "power-supply"
      /\ call_in.keyword = <<>> ) =>
        \A estimated_power \in {PowerConstraint(call_in.build)} :
            estimated_power # None =>
                \A i \in 1..Len(Searchable) :
                    IF "wattage" \in DOMAIN Searchable[i]
                    THEN \E w \in {PyNumber(Searchable[i]["wattage"])} :
                             /\ ~w.ok => ~Kept(Searchable[i])
                             /\ (w.ok /\ 7 * w.v > 10 * estimated_power.v)
                                    => Kept(Searchable[i])
                             /\ (w.ok /\ 7 * w.v < 10 * estimated_power.v)
                                    => ~Kept(Searchable[i])
                    ELSE Kept(Searchable[i])

-----------------------------------------------------------------------------
(* CompatibilityChecker.check_build called on its own                      *)
(* Specification SpecCheck: check_build is called once on a build whose    *)
(* slots are empty or hold a record with or without the fields the three   *)
(* rules read, each field a string, a number or a speed pair.              *)
(* Specification SpecCheckDirty: the same call on builds whose records     *)
(* also carry null and unparseable fields.                                 *)

\* the statements of check_build that raise outside its try block: the
\* subscript ram_speed_data[0] (line 90) on a null speed, and the tests
\* 'NOT_FOUND' in mem_support (lines 98, 101) on a null memory support
CheckBuildRaises(parts) ==
    LET cpu == parts["cpu"]
        mobo == parts["motherboard"]
        ram == parts["ram"]
    IN  IF ram = NoPart \/ (cpu = NoPart /\ mobo = NoPart) THEN FALSE
        ELSE \/ GetOr(ram, "speed", <<0, 0>>) = NoneStr
             \/ \E from_cpu \in {IF cpu # NoPart
                                 THEN GetStr(cpu, "Architecture - Memory Support", NOT_FOUND)
                                 ELSE NOT_FOUND} :
                    \/ from_cpu = NoneStr
                    \/ /\ StrContains(NOT_FOUND, from_cpu)
                       /\ mobo # NoPart
                       /\ GetStr(mobo, "Architecture - Memory Support", NOT_FOUND) = NoneStr

\* what a call of check_build gives back: the warnings, or the exception
CheckBuildOutcome(parts) ==
    IF CheckBuildRaises(parts)
    THEN [raised |-> "TypeError"]
    ELSE [warnings |-> check_build(parts)]

CheckCpuSockets == {SOCK_AMD_AM4, SOCK_INTEL_1700, <<>>}

CheckCpus ==
    Optional(Optional(Optional({("name" :> NAME_R5)},
                               "Physical - Socket", CheckCpuSockets),
                      "Architecture - Memory Support", {DDR4, MEM_DDR4_DDR5, <<>>}),
             "Performance - TDP", {Num(100), Num(105)})
        \cup {("name" :> NAME_R7) @@ ("socket" :> SOCK_AM4)}

CheckMobos ==
    Optional(Optional({("name" :> NAME_B450)}, "socket", {SOCK_AM4, SOCK_LGA_1700}),
             "Architecture - Memory Support", {DDR5})
        \cup {("name" :> NAME_B660) @@ ("Physical - Socket" :> SOCK_LGA_1700)}

CheckRams ==
    Optional({("name" :> NAME_RAM5)}, "speed", {<<4, 3200>>, <<5, 6000>>})

CheckGpus ==
    Optional({("name" :> NAME_GPU_BIG)}, "Board Design - TDP", {Num(200), Num(250)})

CheckPsus ==
    Optional({("name" :> NAME_PSU650)}, "wattage",
             {Num(0), Num(300), Num(500), Num(650), Str(WATT_650), Num(0 - 50)})

CheckBuilds ==
    { [EmptyParts EXCEPT !["cpu"] = cpu, !["motherboard"] = mobo,
                         !["ram"] = ram, !["gpu"] = gpu, !["psu"] = psu] :
          cpu \in CheckCpus \cup {NoPart},
          mobo \in CheckMobos \cup {NoPart},
          ram \in CheckRams \cup {NoPart},
          gpu \in CheckGpus \cup {NoPart},
          psu \in CheckPsus \cup {NoPart} }

\* records with null and unparseable fields
DirtyCpus ==
    Optional(Optional(Optional({("name" :> NAME_R5)},
                               "Physical - Socket", {SOCK_AMD_AM4, NoneStr}),
                      "Architecture - Memory Support", {DDR4, NoneStr}),
             "Performance - TDP", {Num(100), None, Str(TDP_65_W)})

DirtyMobos ==
    Optional(Optional({("name" :> NAME_B450)}, "socket", {SOCK_AM4, NoneStr}),
             "Architecture - Memory Support", {DDR5, NoneStr})

DirtyRams ==
    Optional({("name" :> NAME_RAM5)}, "speed", {<<5, 6000>>, NoneStr})

DirtyGpus ==
    Optional({("name" :> NAME_GPU_BIG)}, "Board Design - TDP",
             {Num(200), None, Str(NOT_AVAILABLE)})

DirtyPsus ==
    Optional({("name" :> NAME_PSU650)}, "wattage",
             {Num(500), None, Str(NOT_AVAILABLE)})

DirtyBuilds ==
    { [EmptyParts EXCEPT !["cpu"] = cpu, !["motherboard"] = mobo,
                         !["ram"] = ram, !["gpu"] = gpu, !["psu"] = psu] :
          cpu \in DirtyCpus \cup {NoPart},
          mobo \in DirtyMobos \cup {NoPart},
          ram \in DirtyRams \cup {NoPart},
          gpu \in DirtyGpus \cup {NoPart},
          psu \in DirtyPsus \cup {NoPart} }

CheckIdle ==
    /\ call_out = NoCall
    /\ data = NoParts
    /\ master_spec_maps = <<>>
    /\ phase = "ready"
    /\ RunIdle
    /\ OtherIdle

InitCheck == call_in \in { [build |-> parts] : parts \in CheckBuilds } /\ CheckIdle

InitCheckDirty == call_in \in { [build |-> parts] : parts \in DirtyBuilds } /\ CheckIdle

\* checker.check_build(part_list)
CheckCall ==
    /\ call_out = NoCall
    /\ call_out' = [check_build |-> CheckBuildOutcome(call_in.build)]
    /\ CallFrame

NextCheck == CheckCall

SpecCheck == InitCheck /\ [][NextCheck]_vars

SpecCheckDirty == InitCheckDirty /\ [][NextCheck]_vars

\* check_build has been called, it returned, and the warnings it returned
Checked == call_out # NoCall

CheckReturned == Checked /\ "warnings" \in DOMAIN call_out.check_build

CheckWarnings == call_out.check_build.warnings

\* the warnings of the given kinds, in the order of the list
WarningsOfKind(warnings, kinds) == SelectSeq(warnings, LAMBDA w : w.kind \in kinds)

\* ceil(a / b) for b > 0
CeilDiv(a, b) == (a + b - 1) \div b

RiskyWarnings == WarningsOfKind(CheckWarnings, {"power_risky"})

\* the build has a PSU of positive wattage and a CPU or GPU
PowerRuleApplies(parts) ==
    /\ parts["psu"] # NoPart
    /\ parts["cpu"] # NoPart \/ parts["gpu"] # NoPart
    /\ PyNumber(GetOr(parts["psu"], "wattage", Num(0))).ok
    /\ PyNumber(GetOr(parts["psu"], "wattage", Num(0))).v > 0

PsuWattage(parts) == PyNumber(GetOr(parts["psu"], "wattage", Num(0))).v

TotalDraw(parts) ==
    TdpOrZero(parts["cpu"], "Performance - TDP")
        + TdpOrZero(parts["gpu"], "Board Design - TDP") + 100

\* C17: for a build with a PSU of positive wattage w and a CPU or GPU, with
\* total = cpu_tdp + gpu_tdp + 100, the checker emits the risky warning,
\* naming ceil(total / 0.7) as the minimum safe wattage, if w x 0.7 < total,
\* and emits no risky warning otherwise
C17_RiskyWarningNamesCeiling ==
    (CheckReturned /\ PowerRuleApplies(call_in.build)) =>
        \A w \in {PsuWattage(call_in.build)}, total \in {TotalDraw(call_in.build)} :
            IF 7 * w < 10 * total
            THEN /\ Len(RiskyWarnings) = 1
                 /\ RiskyWarnings[1].min_safe_psu = CeilDiv(10 * total, 7)
            ELSE RiskyWarnings = <<>>

\* what the code does instead: the wattage it names is total / 0.7 rounded
\* down, and off the boundary w x 0.7 = total the warning is emitted
\* exactly when w x 0.7 < total
RiskyWarningNamesFloor ==
    (CheckReturned /\ PowerRuleApplies(call_in.build)) =>
        \A w \in {PsuWattage(call_in.build)}, total \in {TotalDraw(call_in.build)} :
            /\ Len(RiskyWarnings) <= 1
            /\ 7 * w < 10 * total => Len(RiskyWarnings) = 1
            /\ 7 * w > 10 * total => RiskyWarnings = <<>>
            /\ \A i \in 1..Len(RiskyWarnings) :
                   /\ RiskyWarnings[i].min_safe_psu = (10 * total) \div 7
                   /\ RiskyWarnings[i].total_power = total
                   /\ RiskyWarnings[i].psu_power = w

\* C18: check_build never raises: whatever slots are filled and whatever
\* fields are missing, null or unparseable, it returns a list of warnings;
\* a rule whose parts are absent adds nothing, and the empty build gives
\* the empty list
C18_CheckBuildNeverRaises ==
    Checked =>
        /\ CheckReturned
        /\ \A parts \in {call_in.build} :
               /\ (parts["cpu"] = NoPart \/ parts["motherboard"] = NoPart) =>
                      WarningsOfKind(CheckWarnings,
                          {"socket_not_checked", "socket_incompatible"}) = <<>>
               /\ (parts["ram"] = NoPart
                      \/ (parts["cpu"] = NoPart /\ parts["motherboard"] = NoPart)) =>
                      WarningsOfKind(CheckWarnings,
                          {"memory_not_checked", "memory_incompatible"}) = <<>>
               /\ (parts["psu"] = NoPart
                      \/ (parts["cpu"] = NoPart /\ parts["gpu"] = NoPart)) =>
                      WarningsOfKind(CheckWarnings,
                          {"psu_check_failed", "psu_not_checked", "power_risky",
                           "power_incompatible"}) = <<>>
               /\ parts = EmptyParts => CheckWarnings = <<>>

\* the part of C18 the code keeps: a call that returns skips the rules whose
\* parts are absent, and a call raises only in the memory rule, on a RAM
\* with a null speed or a null memory-support field
CheckBuildRaisesOnlyOnNullMemoryData ==
    Checked =>
        \A parts \in {call_in.build} :
            IF CheckReturned
            THEN /\ (parts["cpu"] = NoPart \/ parts["motherboard"] = NoPart) =>
                        WarningsOfKind(CheckWarnings,
                            {"socket_not_checked", "socket_incompatible"}) = <<>>
                 /\ (parts["psu"] = NoPart
                        \/ (parts["cpu"] = NoPart /\ parts["gpu"] = NoPart)) =>
                        WarningsOfKind(CheckWarnings,
                            {"psu_check_failed", "psu_not_checked", "power_risky",
                             "power_incompatible"}) = <<>>
                 /\ parts = EmptyParts => CheckWarnings = <<>>
            ELSE /\ parts["ram"] # NoPart
                 /\ parts["cpu"] # NoPart \/ parts["motherboard"] # NoPart
                 /\ \/ GetOr(parts["ram"], "speed", <<0, 0>>) = NoneStr
                    \/ \E slot \in {"cpu", "motherboard"} :
                           /\ parts[slot] # NoPart
                           /\ GetStr(parts[slot], "Architecture - Memory Support", <<>>) = NoneStr

MemoryKinds == {"memory_not_checked", "memory_incompatible"}

\* the part supplies the memory-support field
SuppliesMemorySupport(part) ==
    part # NoPart /\ "Architecture - Memory Support" \in DOMAIN part

\* C19: when RAM and (CPU or motherboard) are present, the supported types
\* are the CPU's memory-support field, else the motherboard's; the checker
\* emits the soft warning iff neither supplies the field, and otherwise the
\* hard warning iff 'DDR' + speed[0] is not a substring of the supported
\* types
C19_MemoryRuleFallsBackToMotherboard ==
    (CheckReturned /\ call_in.build["ram"] # NoPart
        /\ (call_in.build["cpu"] # NoPart \/ call_in.build["motherboard"] # NoPart)) =>
        \A cpu \in {call_in.build["cpu"]}, mobo \in {call_in.build["motherboard"]},
           ram \in {call_in.build["ram"]},
           memory_warnings \in {WarningsOfKind(CheckWarnings, MemoryKinds)} :
            /\ Len(memory_warnings) <= 1
            /\ (\E i \in 1..Len(memory_warnings) :
                    memory_warnings[i].kind = "memory_not_checked")
                   <=> (~SuppliesMemorySupport(cpu) /\ ~SuppliesMemorySupport(mobo))
            /\ ((SuppliesMemorySupport(cpu) \/ SuppliesMemorySupport(mobo))
                    /\ "speed" \in DOMAIN ram) =>
                   \A supported \in {IF SuppliesMemorySupport(cpu)
                                     THEN cpu["Architecture - Memory Support"]
                                     ELSE mobo["Architecture - Memory Support"]} :
                       (\E i \in 1..Len(memory_warnings) :
                            memory_warnings[i].kind = "memory_incompatible")
                           <=> ~StrContains(DDR \o IntToStr(ram["speed"][1]), supported)

\* a DDR5 RAM checked against a CPU without the field and a motherboard
\* that lists DDR5
C19_Witness ==
    /\ CheckReturned
    /\ call_in.build["ram"] # NoPart
    /\ "speed" \in DOMAIN call_in.build["ram"]
    /\ call_in.build["ram"]["speed"] = <<5, 6000>>
    /\ call_in.build["cpu"] # NoPart
    /\ ~SuppliesMemorySupport(call_in.build["cpu"])
    /\ SuppliesMemorySupport(call_in.build["motherboard"])
    /\ WarningsOfKind(CheckWarnings, MemoryKinds) = <<>>

\* the examples of C19: speed (5, 6000) against 'DDR4, DDR5' and 'DDR4'
MemoryRuleExamples ==
    (CheckReturned /\ call_in.build["ram"] # NoPart
        /\ "speed" \in DOMAIN call_in.build["ram"]
        /\ call_in.build["ram"]["speed"] = <<5, 6000>>
        /\ SuppliesMemorySupport(call_in.build["cpu"])) =>
        /\ call_in.build["cpu"]["Architecture - Memory Support"] = MEM_DDR4_DDR5 =>
               WarningsOfKind(CheckWarnings, MemoryKinds) = <<>>
        /\ call_in.build["cpu"]["Architecture - Memory Support"] = DDR4 =>
               /\ Len(WarningsOfKind(CheckWarnings, MemoryKinds)) = 1
               /\ WarningsOfKind(CheckWarnings, MemoryKinds)[1].kind = "memory_incompatible"

SocketKinds == {"socket_not_checked", "socket_incompatible"}

\* cpu.get('Physical - Socket') or cpu.get('socket')
CpuSocketData(cpu) ==
    OrStr(GetStr(cpu, "Physical - Socket", NoneStr), GetStr(cpu, "socket", NoneStr))

\* mobo.get('socket') or mobo.get('Physical - Socket')
MoboSocketData(mobo) ==
    OrStr(GetStr(mobo, "socket", NoneStr), GetStr(mobo, "Physical - Socket", NoneStr))

\* C20: with CPU and motherboard both present the checker emits at most one
\* socket warning: the soft one iff either part lacks socket data, otherwise
\* the hard one iff the normalized sockets differ; with CPU or motherboard
\* absent it emits no socket warning
C20_SocketRuleEmitsAtMostOneWarning ==
    CheckReturned =>
        \A cpu \in {call_in.build["cpu"]}, mobo \in {call_in.build["motherboard"]},
           socket_warnings \in {WarningsOfKind(CheckWarnings, SocketKinds)} :
            IF cpu = NoPart \/ mobo = NoPart THEN socket_warnings = <<>>
            ELSE \A cpu_socket \in {CpuSocketData(cpu)}, mobo_socket \in {MoboSocketData(mobo)} :
                    /\ Len(socket_warnings) <= 1
                    /\ (\E i \in 1..Len(socket_warnings) :
                            socket_warnings[i].kind = "socket_not_checked")
                           <=> (~TruthyStr(cpu_socket) \/ ~TruthyStr(mobo_socket))
                    /\ (\E i \in 1..Len(socket_warnings) :
                            socket_warnings[i].kind = "socket_incompatible")
                           <=> /\ TruthyStr(cpu_socket)
                               /\ TruthyStr(mobo_socket)
                               /\ checker_normalize_socket(cpu_socket)
                                      # checker_normalize_socket(mobo_socket)

\* an 'AMD Socket AM4' CPU on an 'AM4' motherboard: no socket warning
C20_Witness ==
    /\ CheckReturned
    /\ call_in.build["cpu"] # NoPart
    /\ call_in.build["motherboard"] # NoPart
    /\ CpuSocketData(call_in.build["cpu"]) = SOCK_AMD_AM4
    /\ MoboSocketData(call_in.build["motherboard"]) = SOCK_AM4
    /\ WarningsOfKind(CheckWarnings, SocketKinds) = <<>>

-----------------------------------------------------------------------------
(* Specification SpecEnrich: enrich_product_database is called with the    *)
(* arguments of a start-up call, and then a second time with the same      *)
(* arguments, on a catalogue of listings and reference records             *)

MaxEnriched == 2

NAME_RTX_40_OC == <<"R", "T", "X", " ", "4", "0", " ", "O", "C">>

NAME_RX_76 == <<"R", "X", " ", "7", "6">>

NAME_AMD_ONLY == <<"A", "M", "D">>

NAME_RTX_40 == <<"R", "T", "X", " ", "4", "0">>

NAME_GEFORCE_RTX_40 == <<"G", "e", "F", "o", "r", "c", "e", " ", "R", "T", "X", " ", "4", "0">>

NAME_RADEON_RX_76 == <<"R", "a", "d", "e", "o", "n", " ", "R", "X", " ", "7", "6">>

NAME_RADEON == <<"R", "a", "d", "e", "o", "n">>

\* video-card listings: a name, with or without a chipset, one of them with
\* a TDP of its own
EnrichListings ==
    Optional({ ("name" :> name) : name \in {NAME_RTX_40_OC, NAME_RX_76, NAME_AMD_ONLY} },
             "chipset", {NAME_RTX_40, <<>>})
        \cup {("name" :> NAME_RX_76) @@ ("Board Design - TDP" :> Num(1))}

\* reference records of master_gpu_database
RefRtx40 == ("Name" :> NAME_GEFORCE_RTX_40) @@ ("Board Design - TDP" :> Num(115))

RefRtx40Chipset == RefRtx40 @@ ("chipset" :> NAME_RX_76)

RefRx76 ==
    ("Name" :> NAME_RADEON_RX_76) @@ ("Board Design - TDP" :> Num(165))
        @@ ("chipset" :> NAME_RX_76)

RefNoKeywords == ("Name" :> NAME_RADEON) @@ ("Board Design - TDP" :> Num(5))

EnrichReferences ==
    { <<RefRtx40, RefRx76>>, <<RefRtx40Chipset, RefRx76>>, <<RefRx76, RefRtx40Chipset>>,
      <<RefNoKeywords>>, <<RefRtx40, RefNoKeywords>>, <<>> }

\* the lists of at most MaxEnriched listings
EnrichLists ==
    UNION { [1..n -> EnrichListings] : n \in 1..MaxEnriched }

EnrichCatalogues ==
    { [cpu |-> <<Listing(CpuAm4), Listing(CpuBare), Rec2("name", <<>>, "chipset", NAME_R5)>>,
       master_cpu_database |-> MasterCpus, master_gpu_database |-> refs]
      @@ ("video-card" :> listings) :
          listings \in EnrichLists, refs \in EnrichReferences }

\* the arguments of the start-up calls (app.py:101-108, main.py:76-80)
EnrichCalls ==
    { [product_key |-> "cpu", master_db_key |-> "master_cpu_database",
       match_field |-> "name", specs_to_copy |-> CPU_SPECS],
      [product_key |-> "video-card", master_db_key |-> "master_gpu_database",
       match_field |-> "name", specs_to_copy |-> GPU_SPECS("web")],
      [product_key |-> "video-card", master_db_key |-> "master_gpu_database",
       match_field |-> "name", specs_to_copy |-> GPU_SPECS("cli")] }

InitEnrich ==
    /\ data \in EnrichCatalogues
    /\ call_in \in EnrichCalls
    /\ master_spec_maps = build_master_spec_maps(data)
    /\ phase = "constructed"
    /\ call_out = NoCall
    /\ RunIdle
    /\ OtherIdle

EnrichFrame ==
    /\ UNCHANGED <<master_spec_maps, call_in>>
    /\ UNCHANGED manualVars
    /\ UNCHANGED runVars
    /\ UNCHANGED pickVars
    /\ UNCHANGED normVars

\* db.enrich_product_database(product_key, master_db_key, match_field,
\* specs_to_copy); call_out keeps the catalogue as it was before the call
EnrichOnce ==
    /\ phase = "constructed"
    /\ data' = enrich_product_database(data, master_spec_maps, call_in.product_key,
                                       call_in.master_db_key, call_in.match_field,
                                       call_in.specs_to_copy)
    /\ phase' = "enriched_once"
    /\ call_out' = [raw |-> data]
    /\ EnrichFrame

\* the same call a second time; call_out keeps the catalogue of the first
EnrichAgain ==
    /\ phase = "enriched_once"
    /\ data' = enrich_product_database(data, master_spec_maps, call_in.product_key,
                                       call_in.master_db_key, call_in.match_field,
                                       call_in.specs_to_copy)
    /\ phase' = "enriched_twice"
    /\ call_out' = [raw |-> call_out.raw, first |-> data]
    /\ EnrichFrame

NextEnrich ==
    \/ EnrichOnce
    \/ EnrichAgain

SpecEnrich == InitEnrich /\ [][NextEnrich]_vars

\* C21: running enrich_product_database a second time with the same
\* arguments leaves every catalogue record exactly as the first run left it,
\* whatever the catalogue, the reference data and the keys to copy
C21_EnrichmentIsIdempotent ==
    phase = "enriched_twice" => data = call_out.first

\* the part of C21 the code keeps: the second run changes nothing when
\* 'chipset' is not among the copied keys the reference records carry
EnrichmentIsIdempotentWithoutChipset ==
    (phase = "enriched_twice"
        /\ \/ "chipset" \notin call_in.specs_to_copy
           \/ \A i \in 1..Len(data[call_in.master_db_key]) :
                  "chipset" \notin DOMAIN data[call_in.master_db_key][i]) =>
        data = call_out.first

\* the list the call enriches, before and after, and the index it reads
RawList == call_out.raw[call_in.product_key]

EnrichedList == data[call_in.product_key]

EnrichMap == master_spec_maps[MapKey(call_in.master_db_key)]

\* the record with the listed keys the reference carries copied into it
Overwritten(record, reference, keys) ==
    [k \in DOMAIN record \cup (keys \cap DOMAIN reference) |->
        IF k \in keys \cap DOMAIN reference THEN reference[k] ELSE record[k]]

\* C24 as stated: the keyword set of a record is taken from its chipset
\* field if present, else from its name; if some reference keyword set is a
\* subset of it, the listed keys the chosen reference carries are copied
\* into the record and nothing else changes; if none is, the record is
\* unchanged
C24_MatchOnChipsetIfPresent ==
    phase = "enriched_once" =>
        \A i \in 1..Len(RawList) :
            \A record \in {RawList[i]} :
                \A words \in {normalize_search_term(
                                  IF "chipset" \in DOMAIN record
                                  THEN record["chipset"] ELSE record["name"])} :
                    IF PrimaryMatches(EnrichMap, words) # {}
                    THEN \E j \in PrimaryMatches(EnrichMap, words) :
                             EnrichedList[i] =
                                 Overwritten(record, EnrichMap[j].part, call_in.specs_to_copy)
                    ELSE EnrichedList[i] = record

\* the record takes part in the pass: its match field is not empty, or it
\* is a video card with a non-empty chipset
TakesPart(record) ==
    \/ TruthyStr(GetStr(record, call_in.match_field, NoneStr))
    \/ call_in.product_key = "video-card" /\ TruthyStr(GetStr(record, "chipset", NoneStr))

\* the keyword set of the record: from its chipset if it has a non-empty
\* one, else from its name
RecordWords(record) ==
    normalize_search_term(OrStr(GetStr(record, "chipset", NoneStr),
                                GetStr(record, "name", NoneStr)))

\* C24: for a record that takes part in the pass, the keyword set is taken
\* from its chipset field if that is present and not empty, else from its
\* name; if the set is not empty and some reference keyword set is a subset
\* of it, every listed key the first such reference carries is copied into
\* the record, overwriting any existing value, and no other field changes;
\* in every other case the record is left unchanged
C24_MatchCopiesListedKeysOnly ==
    phase = "enriched_once" =>
        \A i \in 1..Len(RawList) :
            \A record \in {RawList[i]} :
                \A words \in {RecordWords(record)} :
                    IF TakesPart(record) /\ words # {}
                           /\ PrimaryMatches(EnrichMap, words) # {}
                    THEN EnrichedList[i] =
                             Overwritten(record,
                                         EnrichMap[SetMin(PrimaryMatches(EnrichMap, words))].part,
                                         call_in.specs_to_copy)
                    ELSE EnrichedList[i] = record

\* a listing with a TDP of its own has been matched and its TDP overwritten
C24_Witness ==
    /\ phase = "enriched_once"
    /\ \E i \in 1..Len(RawList) :
           /\ "Board Design - TDP" \in DOMAIN RawList[i]
           /\ RawList[i]["Board Design - TDP"] = Num(1)
           /\ EnrichedList[i]["Board Design - TDP"] = Num(165)
           /\ EnrichedList[i]["name"] = RawList[i]["name"]

\* C29 as stated: the fallback test accepts a reference exactly when the
\* subset test accepts it, and find_master_spec returns no match exactly
\* when no reference keyword set is a subset of the record's
C29_NoMatchIffNoSubset ==
    phase = "enriched_once" =>
        \A i \in 1..Len(RawList) :
            \A words \in {RecordWords(RawList[i])} :
                /\ FallbackMatches(EnrichMap, words) = PrimaryMatches(EnrichMap, words)
                /\ (find_master_spec(master_spec_maps, call_in.master_db_key,
                                     GetStr(RawList[i], "name", NoneStr),
                                     GetStr(RawList[i], "chipset", NoneStr)) = NoPart)
                       <=> PrimaryMatches(EnrichMap, words) = {}

\* C29: the fallback test accepts a reference exactly when the subset test
\* accepts it, so find_master_spec never returns a match from the fallback
\* loop: it returns no match exactly when the record's keyword set is empty
\* or no reference keyword set is a subset of it, and otherwise the first
\* reference the subset test accepts
C29_FallbackAddsNothing ==
    phase = "enriched_once" =>
        \A i \in 1..Len(RawList) :
            \A words \in {RecordWords(RawList[i])} :
                \A found \in {find_master_spec(master_spec_maps, call_in.master_db_key,
                                               GetStr(RawList[i], "name", NoneStr),
                                               GetStr(RawList[i], "chipset", NoneStr))} :
                    /\ FallbackMatches(EnrichMap, words) = PrimaryMatches(EnrichMap, words)
                    /\ found = NoPart
                           <=> (words = {} \/ PrimaryMatches(EnrichMap, words) = {})
                    /\ found # NoPart =>
                           found = EnrichMap[SetMin(PrimaryMatches(EnrichMap, words))].part

\* a record with keywords that no reference of a non-empty index matches,
\* next to a record that a reference matches
C29_Witness ==
    /\ phase = "enriched_once"
    /\ EnrichMap # <<>>
    /\ \E i \in 1..Len(RawList) :
           /\ RecordWords(RawList[i]) # {}
           /\ PrimaryMatches(EnrichMap, RecordWords(RawList[i])) = {}
           /\ EnrichedList[i] = RawList[i]
    /\ \E i \in 1..Len(RawList) :
           /\ PrimaryMatches(EnrichMap, RecordWords(RawList[i])) # {}
           /\ EnrichedList[i] # RawList[i]

-----------------------------------------------------------------------------
(* Specification SpecPasses: passes_constraints is called once on a record *)
(* of any shape and a ConstraintSet                                        *)

LPDDR3 == <<"L", "P", "D", "D", "R", "3">>

PassesModules == <<2, 8>>

\* records with or without speed, a module count and a memory-support field
PassesParts ==
    Optional(Optional(Optional({("name" :> NAME_RAM5)},
                               "speed", {<<0, 0>>, <<3, 1600>>, <<4, 3200>>, <<5, 6000>>}),
                      "modules", {PassesModules}),
             "Architecture - Memory Support",
             {DDR4, MEM_DDR4_DDR5, DDR5, MEM_LPDDR3_DDR3, <<>>})
        \cup {MbAm4, Psu650, Psu450}

PassesConstraintSets ==
    { [socket |-> sock, memory_type |-> mem, estimated_power |-> pow] :
          sock \in {NoneStr, AM4},
          mem \in {NoneStr, DDR4, DDR5, LPDDR3},
          pow \in {None, Num(455)} }

InitPasses ==
    /\ call_in \in { [part |-> part, constraints |-> constraints] :
                        part \in PassesParts, constraints \in PassesConstraintSets }
    /\ call_out = NoCall
    /\ data = NoParts
    /\ master_spec_maps = <<>>
    /\ phase = "ready"
    /\ RunIdle
    /\ OtherIdle

\* db.passes_constraints(part, constraints)
PassesCall ==
    /\ call_out = NoCall
    /\ call_out' = [passes_constraints |->
                       passes_constraints(call_in.part, call_in.constraints)]
    /\ CallFrame

NextPasses == PassesCall

SpecPasses == InitPasses /\ [][NextPasses]_vars

Passed == call_out # NoCall

\* the record exposes a module count and a speed
RamShaped(part) == "modules" \in DOMAIN part /\ "speed" \in DOMAIN part

\* what the memory-type rule of the claim says of the record
MemoryRuleKeeps(part, M) ==
    IF RamShaped(part)
    THEN part["speed"][1] # 0 /\ StrStartsWith(M, DDR \o IntToStr(part["speed"][1]))
    ELSE IF "Architecture - Memory Support" \in DOMAIN part
    THEN StrContains(M, part["Architecture - Memory Support"])
    ELSE TRUE

\* C23: under a ConstraintSet with memory_type M, a RAM-shaped record is
\* kept iff speed[0] is not 0 and 'DDR' + speed[0] is a prefix of M; a
\* record with a memory-support field that is not RAM-shaped is kept iff M
\* is a substring of the field; a record of neither shape is kept (the
\* other constraints permitting)
C23_MemoryTypeFilterByShape ==
    (Passed /\ call_in.constraints.memory_type # NoneStr) =>
        \A part \in {call_in.part}, constraints \in {call_in.constraints} :
            /\ call_out.passes_constraints => MemoryRuleKeeps(part, constraints.memory_type)
            /\ (constraints.socket = NoneStr /\ constraints.estimated_power = None) =>
                   (call_out.passes_constraints
                        <=> MemoryRuleKeeps(part, constraints.memory_type))

\* a DDR5 stick kept, and a DDR3 stick dropped, under their constraints
C23_Witness ==
    /\ Passed
    /\ RamShaped(call_in.part)
    /\ call_in.constraints.socket = NoneStr
    /\ call_in.constraints.estimated_power = None
    /\ \/ /\ call_in.part["speed"] = <<5, 6000>>
          /\ call_in.constraints.memory_type = DDR5
          /\ call_out.passes_constraints
       \/ /\ call_in.part["speed"] = <<3, 1600>>
          /\ call_in.constraints.memory_type = LPDDR3
          /\ ~call_out.passes_constraints

-----------------------------------------------------------------------------
(* Specification SpecAgree: run_auto_build, called once, on catalogues     *)
(* whose CPU and motherboard records name their socket field either way    *)
(* and whose CPU and GPU records carry a TDP, none, zero or an unparseable *)
(* one                                                                     *)

SOCK_LAMDGA1700 == <<"l", "a", "m", "d", "g", "a", "1", "7", "0", "0">>

NAME_PSU100 == <<"P", "S", "U", "1", "0", "0">>

\* an AM4 CPU whose socket is in the field 'socket'
CpuSocketKey ==
    Rec2("name", NAME_R7, "price", Num(190))
    @@ Rec2("socket", SOCK_AM4, "Architecture - Memory Support", DDR4)
    @@ ("Performance - TDP" :> Num(65))

\* a CPU whose normalized socket normalizes further
CpuOddSocket ==
    Rec2("name", NAME_I5, "price", Num(185))
    @@ Rec2("Physical - Socket", SOCK_LAMDGA1700, "Architecture - Memory Support", DDR4)
    @@ ("Performance - TDP" :> Num(65))

CpuNoTdp ==
    Rec2("name", NAME_X3, "price", Num(195))
    @@ Rec2("Physical - Socket", SOCK_AMD_AM4, "Architecture - Memory Support", DDR4)

CpuBadTdp == CpuNoTdp @@ ("Performance - TDP" :> Str(TDP_65_W))

\* an LGA 1700 motherboard whose socket is in the field 'Physical - Socket'
MbPhysicalKey ==
    Rec2("name", NAME_B660, "price", Num(120)) @@ ("Physical - Socket" :> SOCK_LGA_1700)

GpuNoTdp == Rec2("name", NAME_GPU_SMALL, "price", Num(250))

GpuZeroTdp == GpuNoTdp @@ ("Board Design - TDP" :> Num(0))

Psu100 == Rec2("name", NAME_PSU100, "price", Num(45)) @@ ("wattage" :> Num(100))

AgreeCatalogues ==
    { [cpu |-> <<c>>, motherboard |-> m, memory |-> RamPool, case |-> CasePool]
      @@ Rec2("video-card", <<g>>, "power-supply", p) :
          c \in {CpuAm4, CpuSocketKey, CpuOddSocket, CpuNoTdp, CpuBadTdp},
          m \in {<<MbAm4, Mb1700>>, <<MbAm4, MbPhysicalKey>>, <<MbAm4>>},
          g \in {GpuSmall, GpuNoTdp, GpuZeroTdp},
          p \in {<<Psu450, Psu100>>, <<Psu450>>, <<Psu100>>} }

InitAgree ==
    /\ data \in AgreeCatalogues
    /\ StartedUp
    /\ RunIdle
    /\ OtherIdle

SpecAgree == InitAgree /\ [][NextRun]_vars

EndedInSuccess == pc = "done" /\ result.status = "success"

\* C26: in a run that ends in Success the warnings of the final check hold
\* no hard CPU/motherboard socket-mismatch warning, whichever socket field
\* names the picked records use and whatever their socket strings are
C26_NoSocketMismatchAfterSuccess ==
    EndedInSuccess =>
        WarningsOfKind(result.messages, {"socket_incompatible"}) = <<>>

\* the part of C26 the code keeps: no mismatch warning when the picked CPU
\* carries its socket in 'Physical - Socket' and the normalized socket
\* normalizes to itself
NoSocketMismatchForPhysicalSocket ==
    (EndedInSuccess
        /\ TruthyStr(GetStr(result.build["cpu"], "Physical - Socket", NoneStr))
        /\ \A normalized \in {autobuilder_normalize_socket(
                                  result.build["cpu"]["Physical - Socket"])} :
               PartDatabase_normalize_socket(normalized) = normalized) =>
        WarningsOfKind(result.messages, {"socket_incompatible"}) = <<>>

\* C27: in a run that ends in Success with a PSU of positive wattage w,
\* w x 0.7 >= cpu_tdp + gpu_tdp + 100 for the picked CPU and GPU, a missing
\* TDP counting as 0, and the final check returns no risky power warning
C27_PsuHeadroomAfterSuccess ==
    (EndedInSuccess /\ PowerRuleApplies(result.build)) =>
        /\ 7 * PsuWattage(result.build) >= 10 * TotalDraw(result.build)
        /\ WarningsOfKind(result.messages, {"power_risky"}) = <<>>

\* the part of C27 the code keeps: the headroom holds when both TDPs are
\* missing or numbers and one of them is positive
PsuHeadroomWithPositiveTdp ==
    (EndedInSuccess /\ PowerRuleApplies(result.build)
        /\ \A tdp \in {GetOr(result.build["cpu"], "Performance - TDP", Num(0)),
                       GetOr(result.build["gpu"], "Board Design - TDP", Num(0))} :
               tdp.t = "num"
        /\ TotalDraw(result.build) > 100) =>
        /\ 7 * PsuWattage(result.build) >= 10 * TotalDraw(result.build)
        /\ WarningsOfKind(result.messages, {"power_risky"}) = <<>>

-----------------------------------------------------------------------------
(* The branches of the power rule of check_build (SpecCheck)               *)

\* C28: check_build never emits the 'estimated power draw exceeds PSU
\* capacity' warning: whenever total > wattage the risky branch or the
\* missing-wattage branch has been taken before
C28_IncompatiblePowerWarningIsUnreachable ==
    CheckReturned =>
        /\ WarningsOfKind(CheckWarnings, {"power_incompatible"}) = <<>>
        /\ \A parts \in {call_in.build} :
               (parts["psu"] # NoPart
                    /\ (parts["cpu"] # NoPart \/ parts["gpu"] # NoPart)
                    /\ PyNumber(GetOr(parts["psu"], "wattage", Num(0))).ok
                    /\ TotalDraw(parts) > PsuWattage(parts)) =>
                   WarningsOfKind(CheckWarnings, {"power_risky", "psu_not_checked"}) # <<>>

\* a 300 W PSU under a draw of 400 W: the risky warning and nothing else
C28_Witness ==
    /\ CheckReturned
    /\ call_in.build["psu"] # NoPart
    /\ PowerRuleApplies(call_in.build)
    /\ PsuWattage(call_in.build) = 300
    /\ TotalDraw(call_in.build) = 400
    /\ Len(WarningsOfKind(CheckWarnings, {"power_risky"})) = 1
    /\ WarningsOfKind(CheckWarnings, {"power_incompatible"}) = <<>>

-----------------------------------------------------------------------------
(* Command-line application: build_search_constraints (main.py, 92-148)    *)

AMD_SOCKET_PREFIX == <<"A", "M", "D", " ", "S", "o", "c", "k", "e", "t", " ">>

INTEL_SOCKET_PREFIX == <<"I", "n", "t", "e", "l", " ", "S", "o", "c", "k", "e", "t", " ">>

\* build_search_constraints: the CPU socket is read from 'Architecture -
\* Socket' and stripped of its vendor prefix, a motherboard socket replaces
\* it as written, the memory type is the first type listed, and a TDP that
\* does not convert counts as 100 (CPU) or 250 (GPU)
build_search_constraints(parts) ==
    LET cpu == parts["cpu"]
        mobo == parts["motherboard"]
        gpu == parts["gpu"]
        cpu_socket ==
            IF cpu # NoPart THEN GetStr(cpu, "Architecture - Socket", NoneStr)
            ELSE NoneStr
        mobo_socket ==
            IF mobo # NoPart THEN GetStr(mobo, "socket", NoneStr) ELSE NoneStr
        cpu_mem ==
            IF cpu # NoPart
            THEN GetStr(cpu, "Architecture - Memory Support", NoneStr)
            ELSE NoneStr
        cpu_tdp == IF cpu # NoPart THEN Get(cpu, "Performance - TDP") ELSE None
        gpu_tdp == IF gpu # NoPart THEN Get(gpu, "Board Design - TDP") ELSE None
        cpu_power ==
            IF ~Truthy(cpu_tdp) THEN 0
            ELSE IF PyNumber(cpu_tdp).ok THEN PyNumber(cpu_tdp).v
            ELSE 100
        gpu_power ==
            IF ~Truthy(gpu_tdp) THEN 0
            ELSE IF PyNumber(gpu_tdp).ok THEN PyNumber(gpu_tdp).v
            ELSE 250
    IN  [socket |->
             IF TruthyStr(mobo_socket) THEN mobo_socket
             ELSE IF TruthyStr(cpu_socket)
             THEN StrRemoveAll(StrRemoveAll(cpu_socket, AMD_SOCKET_PREFIX),
                               INTEL_SOCKET_PREFIX)
             ELSE NoneStr,
         memory_type |->
             IF TruthyStr(cpu_mem) THEN FirstCommaToken(cpu_mem) ELSE NoneStr,
         estimated_power |->
             IF cpu_power > 0 \/ gpu_power > 0
             THEN Num(cpu_power + gpu_power + 100)
             ELSE None]

-----------------------------------------------------------------------------
(* Specification SpecSites: the constraint derivations of the allocator,   *)
(* of the web application and of the command-line application, each        *)
(* called once on the same build                                           *)

SitesCpus ==
    Optional(Optional(Optional(Optional({("name" :> NAME_R5)},
                                        "Physical - Socket", {SOCK_AMD_AM4}),
                               "Architecture - Socket", {SOCK_AMD_AM4, SOCK_AM4}),
                      "Architecture - Memory Support", DeriveMemories),
             "Performance - TDP", DeriveTdps)

SitesBuilds ==
    { [EmptyParts EXCEPT !["cpu"] = cpu, !["motherboard"] = mobo, !["gpu"] = gpu] :
          cpu \in SitesCpus \cup {NoPart},
          mobo \in DeriveMobos \cup {NoPart},
          gpu \in DeriveGpus \cup {NoPart} }

NoSites == <<>>

InitSites ==
    /\ call_in \in { [build |-> parts] : parts \in SitesBuilds }
    /\ call_out = NoSites
    /\ data = NoParts
    /\ master_spec_maps = <<>>
    /\ phase = "ready"
    /\ RunIdle
    /\ OtherIdle

\* AutoBuilder._get_constraints(build)
AllocatorSite ==
    /\ "get_constraints" \notin DOMAIN call_out
    /\ call_out' = ("get_constraints" :> get_constraints(call_in.build)) @@ call_out
    /\ CallFrame

\* get_build_constraints(session['build'])
WebSite ==
    /\ "get_build_constraints" \notin DOMAIN call_out
    /\ call_out' =
           ("get_build_constraints" :> get_build_constraints(call_in.build)) @@ call_out
    /\ CallFrame

\* BroBuildApp.build_search_constraints() on part_list.parts
CliSite ==
    /\ "build_search_constraints" \notin DOMAIN call_out
    /\ call_out' =
           ("build_search_constraints" :> build_search_constraints(call_in.build))
               @@ call_out
    /\ CallFrame

NextSites ==
    \/ AllocatorSite
    \/ WebSite
    \/ CliSite

SpecSites == InitSites /\ [][NextSites]_vars

\* the three derivations have returned
AllSitesReturned ==
    DOMAIN call_out =
        {"get_constraints", "get_build_constraints", "build_search_constraints"}

\* C30: for every build, the allocator's _get_constraints, the web
\* application's get_build_constraints and the command-line application's
\* build_search_constraints return the same ConstraintSet
C30_OneDerivationAtEverySite ==
    AllSitesReturned =>
        /\ call_out["get_constraints"] = call_out["get_build_constraints"]
        /\ call_out["get_constraints"] = call_out["build_search_constraints"]

\* a TDP field that is present and null or empty
NullTdp(part, key) ==
    part # NoPart /\ key \in DOMAIN part /\ ~Truthy(part[key]) /\ part[key] # Num(0)

\* what the allocator and the web application agree on: the socket and the
\* memory type on every build, the estimated power on every build without
\* a null TDP
AllocatorAndWebAgree ==
    AllSitesReturned =>
        LET a == call_out["get_constraints"]
            w == call_out["get_build_constraints"]
        IN  /\ a.socket = w.socket
            /\ a.memory_type = w.memory_type
            /\ (~NullTdp(call_in.build["cpu"], "Performance - TDP")
                    /\ ~NullTdp(call_in.build["gpu"], "Board Design - TDP")) =>
                   a.estimated_power = w.estimated_power

\* what the three agree on: the ConstraintSet of a build without CPU and
\* motherboard whose GPU TDP is missing or a number
AllSitesAgreeOnGpuOnlyBuilds ==
    AllSitesReturned =>
        \A parts \in {call_in.build} :
            (parts["cpu"] = NoPart /\ parts["motherboard"] = NoPart
                 /\ (parts["gpu"] = NoPart
                         \/ "Board Design - TDP" \notin DOMAIN parts["gpu"]
                         \/ Get(parts["gpu"], "Board Design - TDP").t = "num")) =>
                /\ call_out["get_constraints"] = call_out["get_build_constraints"]
                /\ call_out["get_constraints"] = call_out["build_search_constraints"]

====
